---------------------------- MODULE Spec2Model ----------------------------
(***************************************************************************)
(* A model of the astro-snowfall animation engine: the Snowflake particle  *)
(* (src/lib/snowfall/Snowflake.ts), the SnowfallCanvas controller          *)
(* (src/lib/snowfall/SnowfallCanvas.ts, with the click-interaction variant *)
(* of the same class in src/unnamed/part_001), the configuration defaults  *)
(* (config.ts) and the math utilities (utils.ts).                          *)
(*                                                                         *)
(* JavaScript numbers are modelled as exact rationals <<n, d>> (d > 0,     *)
(* lowest terms), so interpolation, the remainder operator and the wrap    *)
(* comparisons are computed as the code computes them, without rounding.   *)
(***************************************************************************)
EXTENDS Integers, Sequences, FiniteSets, TLC

(***************************************************************************)
(* Bounds of the model.                                                    *)
(***************************************************************************)
\* Math.random() returns k / RandMod for k in 0 .. RandMod-1.
RandMod == 4
\* Date.now() stays within 0 .. MaxTime milliseconds.
MaxTime == 50
\* The particle harness makes at most MaxSteps calls on its particle.
MaxSteps == 2

(***************************************************************************)
(* Evaluation order.  JavaScript evaluates an argument or an initializer   *)
(* once, before the code that uses it runs; Strict(v, F) is F applied to   *)
(* the value of v.                                                         *)
(***************************************************************************)
Strict(v, F(_)) == CHOOSE r \in { F(x) : x \in {v} } : TRUE

(***************************************************************************)
(* JavaScript number arithmetic on exact rationals.                        *)
(***************************************************************************)
Abs(i) == IF i < 0 THEN -i ELSE i

RECURSIVE GCD(_, _)
GCD(a, b) == IF b = 0 THEN a ELSE GCD(b, a % b)

\* n/d in lowest terms with a positive denominator, g being gcd(|n|, |d|).
Lowest(n, d, g) == IF d < 0 THEN <<(-n) \div g, (-d) \div g>> ELSE <<n \div g, d \div g>>

\* The rational n/d.
Rat(n, d) == Strict(<<n, d>>, LAMBDA a : Lowest(a[1], a[2], GCD(Abs(a[1]), Abs(a[2]))))

Num(i) == <<i, 1>>
Zero == <<0, 1>>

RAdd(a, b) == Strict(<<a, b>>, LAMBDA v :
                  Rat(v[1][1] * v[2][2] + v[2][1] * v[1][2], v[1][2] * v[2][2]))
RSub(a, b) == Strict(<<a, b>>, LAMBDA v :
                  Rat(v[1][1] * v[2][2] - v[2][1] * v[1][2], v[1][2] * v[2][2]))
RMul(a, b) == Strict(<<a, b>>, LAMBDA v : Rat(v[1][1] * v[2][1], v[1][2] * v[2][2]))
RDiv(a, b) == Strict(<<a, b>>, LAMBDA v : Rat(v[1][1] * v[2][2], v[1][2] * v[2][1]))
RNeg(a) == Strict(a, LAMBDA v : <<-v[1], v[2]>>)
RLt(a, b) == Strict(<<a, b>>, LAMBDA v : v[1][1] * v[2][2] < v[2][1] * v[1][2])
RLe(a, b) == Strict(<<a, b>>, LAMBDA v : v[1][1] * v[2][2] <= v[2][1] * v[1][2])
RGt(a, b) == RLt(b, a)
RGe(a, b) == RLe(b, a)

\* Truncation toward zero of a rational, as an integer.
Trunc(a) == Strict(a, LAMBDA v :
                IF v[1] >= 0 THEN v[1] \div v[2] ELSE -((-v[1]) \div v[2]))

\* Math.floor of a rational, as an integer.
Floor(a) == Strict(a, LAMBDA v : v[1] \div v[2])

\* The JavaScript remainder a % m: the result takes the sign of the dividend,
\* a - m * trunc(a / m).
JsRem(a, m) == Strict(<<a, m>>, LAMBDA v :
                  RSub(v[1], RMul(v[2], Num(Trunc(RDiv(v[1], v[2]))))))

(***************************************************************************)
(* utils.ts                                                                *)
(***************************************************************************)
\* Math.random(): the generator's state s yields s / RandMod, in [0, 1).
MathRandom(s) == Rat(s, RandMod)

\* The state of the generator after k calls: each call steps it by 3.
RngAfter(s, k) == (s + 3 * k) % RandMod

\* The generator's next state.
NextRng(s) == RngAfter(s, 1)

\* random(min, max) with the span taken as max instead of max - min.
randomNoSpan(min, max, s) ==
    Strict(<<min, max>>, LAMBDA v : RAdd(RMul(MathRandom(s), v[2]), v[1]))

\* random(min, max) evaluated with the generator in state s.
random(min, max, s) ==
    Strict(<<min, max>>, LAMBDA v :
        RAdd(RMul(MathRandom(s), RSub(v[2], v[1])), v[1]))

\* lerp(start, end, t)
\* lerp moving twice as far as t says.
lerpTwice(start, end, t) ==
    Strict(<<start, end, t>>, LAMBDA v :
        RAdd(v[1], RMul(RSub(v[2], v[1]), RMul(Num(2), v[3]))))

lerp(start, end, t) ==
    Strict(<<start, end, t>>, LAMBDA v :
        RAdd(RMul(v[1], RSub(Num(1), v[3])), RMul(v[2], v[3])))

Undefined == "undefined"

\* The value an expression yields when it can be a boolean or undefined.
JsBoolean(b) == [ type |-> "boolean", value |-> b ]

JsUndefined == [ type |-> "undefined" ]

\* The value counts as true in a condition.
Truthy(v) == v.type = "boolean" /\ v.value

\* randomElement(array) evaluated with the generator in state s; indexing
\* past the end of an (empty) array yields undefined.
randomElement(array, s) ==
    Strict(Floor(RMul(MathRandom(s), Num(Len(array)))), LAMBDA i :
        IF i + 1 \in DOMAIN array THEN array[i + 1] ELSE Undefined)

(***************************************************************************)
(* config.ts                                                               *)
(***************************************************************************)
defaultSnowflakeConfig ==
    [ color            |-> "#dee4fd",
      radius           |-> <<Rat(1, 2), Num(3)>>,
      speed            |-> <<Num(1), Num(3)>>,
      wind             |-> <<Rat(-1, 2), Num(2)>>,
      changeFrequency  |-> Num(200),
      rotationSpeed    |-> <<Num(-1), Num(1)>>,
      opacity          |-> <<Num(1), Num(1)>>,
      enable3DRotation |-> FALSE,
      images           |-> Undefined ]

\* The particle count used when the configuration gives none.
DefaultSnowflakeCount == 150

\* a ?? b on a field of a configuration object: the field's value when the
\* object has the field, the fallback otherwise.
Nullish(c, f, fallback) == IF f \in DOMAIN c THEN c[f] ELSE fallback

\* { ...target, ...source }: the own fields of target, then those of source
\* over them.
Spread(target, source) ==
    [ f \in DOMAIN target \cup DOMAIN source |->
        IF f \in DOMAIN source THEN source[f] ELSE target[f] ]

defaultConfig == Spread(defaultSnowflakeConfig, [ snowflakeCount |-> 150 ])

\* mergeConfig with the two spreads in the opposite order.
mergeConfigDefaultsLast(args) ==
    Spread(IF args = << >> THEN << >> ELSE args[1], defaultConfig)

\* mergeConfig(userConfig), args being the arguments of the call: none, or
\* the user's object.  Spreading undefined adds no field.
mergeConfig(args) ==
    Spread(defaultConfig, IF args = << >> THEN << >> ELSE args[1])

(***************************************************************************)
(* Snowflake.ts                                                            *)
(***************************************************************************)
\* The parameters new Snowflake draws, in the order of the object literal,
\* from the generator in state s.
NewParams(config, canvasWidth, canvasHeight, s) ==
    [ x        |-> random(Zero, Num(canvasWidth), s),
      y        |-> random(Num(-canvasHeight), Zero, RngAfter(s, 1)),
      radius   |-> random(config.radius[1], config.radius[2], RngAfter(s, 2)),
      speed    |-> random(config.speed[1], config.speed[2], RngAfter(s, 3)),
      wind     |-> random(config.wind[1], config.wind[2], RngAfter(s, 4)),
      nextSpeed |-> random(config.speed[1], config.speed[2], RngAfter(s, 5)),
      nextWind |-> random(config.wind[1], config.wind[2], RngAfter(s, 6)),
      rotation |-> random(Zero, Num(360), RngAfter(s, 7)),
      rotationSpeed |->
          random(config.rotationSpeed[1], config.rotationSpeed[2], RngAfter(s, 8)),
      opacity  |-> random(config.opacity[1], config.opacity[2], RngAfter(s, 9)),
      rotationX |-> random(Zero, Num(360), RngAfter(s, 10)),
      rotationY |-> random(Zero, Num(360), RngAfter(s, 11)),
      rotationZ |-> random(Zero, Num(360), RngAfter(s, 12)),
      framesSinceLastUpdate |-> Zero,
      image    |-> IF config.images # Undefined
                   THEN randomElement(config.images, RngAfter(s, 13))
                   ELSE Undefined,
      isAccumulated |-> FALSE ]

\* The number of Math.random() calls one new Snowflake makes.
DrawsPerSnowflake(config) == IF config.images # Undefined THEN 14 ELSE 13

\* new Snowflake(config, canvasWidth, canvasHeight) with the generator in
\* state s: the particle and the generator's state afterwards.
NewSnowflake(config, canvasWidth, canvasHeight, s) ==
    Strict(<<config, s>>, LAMBDA v :
        [ flake |-> [ config |-> v[1],
                      params |-> NewParams(v[1], canvasWidth, canvasHeight, v[2]) ],
          rng |-> RngAfter(v[2], DrawsPerSnowflake(v[1])) ])

\* Snowflake.update, the rotations: the planar angle and, with 3D rotation
\* enabled, the three axis angles.
Rotate3D(p, step) ==
    [p EXCEPT
        !.rotationX = JsRem(RAdd(@, RMul(step, Rat(1, 2))), Num(360)),
        !.rotationY = JsRem(RAdd(@, RMul(step, Rat(3, 10))), Num(360)),
        !.rotationZ = JsRem(RAdd(@, step), Num(360))]

UpdateRotation(config, p, framesPassed) ==
    Strict(<<p, RMul(p.rotationSpeed, framesPassed)>>, LAMBDA v :
        Strict([v[1] EXCEPT !.rotation = JsRem(RAdd(@, v[2]), Num(360))], LAMBDA p1 :
            IF config.enable3DRotation THEN Rotate3D(p1, v[2]) ELSE p1))

\* The motion with the position moved by the speed and wind read at entry.
UpdateMotionOldSpeed(config, p, framesPassed) ==
    Strict(<<p, RDiv(framesPassed, config.changeFrequency)>>, LAMBDA v :
        [v[1] EXCEPT !.speed = lerp(v[1].speed, v[1].nextSpeed, v[2]),
                     !.wind  = lerp(v[1].wind, v[1].nextWind, v[2]),
                     !.y = RAdd(@, RMul(v[1].speed, framesPassed)),
                     !.x = RAdd(@, RMul(v[1].wind, framesPassed))])

\* Snowflake.update, the motion: speed and wind move toward their targets
\* (from the values read at entry), then the position moves by the new values.
UpdateMotion(config, p, framesPassed) ==
    Strict(<<p, RDiv(framesPassed, config.changeFrequency)>>, LAMBDA v :
        Strict(<<lerp(v[1].speed, v[1].nextSpeed, v[2]),
                 lerp(v[1].wind, v[1].nextWind, v[2])>>, LAMBDA n :
            [v[1] EXCEPT !.speed = n[1],
                         !.wind  = n[2],
                         !.y = RAdd(@, RMul(n[1], framesPassed)),
                         !.x = RAdd(@, RMul(n[2], framesPassed))]))

\* The frame counter drawing the targets anew only when it exceeds
\* changeFrequency.
UpdateTargetsPast(config, p, framesPassed, s) ==
    Strict(<<p, RAdd(p.framesSinceLastUpdate, framesPassed)>>, LAMBDA v :
        IF RGt(v[2], config.changeFrequency)
        THEN [ params |->
                 [v[1] EXCEPT
                    !.nextSpeed = random(config.speed[1], config.speed[2], s),
                    !.nextWind  = random(config.wind[1], config.wind[2], NextRng(s)),
                    !.framesSinceLastUpdate = Zero],
               rng |-> RngAfter(s, 2) ]
        ELSE [ params |-> [v[1] EXCEPT !.framesSinceLastUpdate = v[2]],
               rng |-> s ])

\* Snowflake.update, the frame counter: when it reaches changeFrequency both
\* targets are drawn anew.  Yields the parameters and the generator's state.
UpdateTargets(config, p, framesPassed, s) ==
    Strict(<<p, RAdd(p.framesSinceLastUpdate, framesPassed)>>, LAMBDA v :
        IF RGe(v[2], config.changeFrequency)
        THEN [ params |->
                 [v[1] EXCEPT
                    !.nextSpeed = random(config.speed[1], config.speed[2], s),
                    !.nextWind  = random(config.wind[1], config.wind[2], NextRng(s)),
                    !.framesSinceLastUpdate = Zero],
               rng |-> RngAfter(s, 2) ]
        ELSE [ params |-> [v[1] EXCEPT !.framesSinceLastUpdate = v[2]],
               rng |-> s ])

\* The vertical wrap relocating to the top edge, y = 0, instead of -radius.
WrapVerticalToZero(p, canvasHeight) ==
    Strict(p, LAMBDA q :
        IF RGt(q.y, Num(canvasHeight)) THEN [q EXCEPT !.y = Zero] ELSE q)

\* Snowflake.update, the wrap around the edges.
WrapVertical(p, canvasHeight) ==
    Strict(p, LAMBDA q :
        IF RGt(q.y, Num(canvasHeight)) THEN [q EXCEPT !.y = RNeg(q.radius)] ELSE q)

\* The horizontal wrap sending the particle back to the top as well.
WrapHorizontalToTop(p, canvasWidth) ==
    Strict(p, LAMBDA q :
        IF RGt(q.x, RAdd(Num(canvasWidth), q.radius))
        THEN [q EXCEPT !.x = RNeg(q.radius), !.y = RNeg(q.radius)]
        ELSE IF RLt(q.x, RNeg(q.radius))
             THEN [q EXCEPT !.x = RAdd(Num(canvasWidth), q.radius),
                            !.y = RNeg(q.radius)]
             ELSE q)

WrapHorizontal(p, canvasWidth) ==
    Strict(p, LAMBDA q :
        IF RGt(q.x, RAdd(Num(canvasWidth), q.radius))
        THEN [q EXCEPT !.x = RNeg(q.radius)]
        ELSE IF RLt(q.x, RNeg(q.radius))
             THEN [q EXCEPT !.x = RAdd(Num(canvasWidth), q.radius)]
             ELSE q)

\* Snowflake.update, the result: config.enableAccumulation && (y + radius >=
\* threshold) is the toggle itself when the toggle is false or undefined, and
\* the comparison otherwise.
ShouldAccumulate(config, p, canvasHeight, accumulationHeight) ==
    IF "enableAccumulation" \notin DOMAIN config
    THEN JsUndefined
    ELSE IF ~config.enableAccumulation
         THEN JsBoolean(FALSE)
         ELSE JsBoolean(RGe(RAdd(p.y, p.radius),
                            RSub(Num(canvasHeight), accumulationHeight)))

\* Snowflake.update setting the particle's own accumulation flag when it
\* signals that accumulation is due.
SnowflakeUpdateSetsFlag(f, canvasWidth, canvasHeight, framesPassed, accumulationHeight, s) ==
    Strict(<<f, framesPassed, accumulationHeight, s>>, LAMBDA v :
        Strict(UpdateTargets(v[1].config,
                   UpdateMotion(v[1].config,
                       UpdateRotation(v[1].config, v[1].params, v[2]), v[2]),
                   v[2], v[4]), LAMBDA t :
            Strict(WrapHorizontal(WrapVertical(t.params, canvasHeight), canvasWidth),
                   LAMBDA p :
                Strict(ShouldAccumulate(v[1].config, p, canvasHeight, v[3]), LAMBDA due :
                    [ flake |-> [v[1] EXCEPT
                                    !.params = [p EXCEPT !.isAccumulated = Truthy(due)]],
                      shouldAccumulate |-> due,
                      rng |-> t.rng ]))))

\* Snowflake.update deciding the accumulation signal on the position before
\* the wraps.
SnowflakeUpdateSignalFirst(f, canvasWidth, canvasHeight, framesPassed, accumulationHeight, s) ==
    Strict(<<f, framesPassed, accumulationHeight, s>>, LAMBDA v :
        Strict(UpdateTargets(v[1].config,
                   UpdateMotion(v[1].config,
                       UpdateRotation(v[1].config, v[1].params, v[2]), v[2]),
                   v[2], v[4]), LAMBDA t :
            Strict(WrapHorizontal(WrapVertical(t.params, canvasHeight), canvasWidth),
                   LAMBDA p :
                [ flake |-> [v[1] EXCEPT !.params = p],
                  shouldAccumulate |->
                      ShouldAccumulate(v[1].config, t.params, canvasHeight, v[3]),
                  rng |-> t.rng ])))

\* Snowflake.update(canvasWidth, canvasHeight, framesPassed, accumulationHeight)
\* with the generator in state s.
SnowflakeUpdate(f, canvasWidth, canvasHeight, framesPassed, accumulationHeight, s) ==
    Strict(<<f, framesPassed, accumulationHeight, s>>, LAMBDA v :
        Strict(UpdateTargets(v[1].config,
                   UpdateMotion(v[1].config,
                       UpdateRotation(v[1].config, v[1].params, v[2]), v[2]),
                   v[2], v[4]), LAMBDA t :
            Strict(WrapHorizontal(WrapVertical(t.params, canvasHeight), canvasWidth),
                   LAMBDA p :
                [ flake |-> [v[1] EXCEPT !.params = p],
                  shouldAccumulate |->
                      ShouldAccumulate(v[1].config, p, canvasHeight, v[3]),
                  rng |-> t.rng ])))

\* reset without the clearing of the accumulation flag.
SnowflakeResetKeepFlag(f, canvasWidth, canvasHeight, s) ==
    Strict(<<f, s>>, LAMBDA v :
        [ flake |->
            [v[1] EXCEPT
               !.params.x = random(Zero, Num(canvasWidth), v[2]),
               !.params.y = random(Num(-canvasHeight), Zero, RngAfter(v[2], 1)),
               !.params.speed =
                   random(v[1].config.speed[1], v[1].config.speed[2], RngAfter(v[2], 2)),
               !.params.wind =
                   random(v[1].config.wind[1], v[1].config.wind[2], RngAfter(v[2], 3)),
               !.params.nextSpeed =
                   random(v[1].config.speed[1], v[1].config.speed[2], RngAfter(v[2], 4)),
               !.params.nextWind =
                   random(v[1].config.wind[1], v[1].config.wind[2], RngAfter(v[2], 5))],
          rng |-> RngAfter(v[2], 6) ])

\* reset starting the frame accumulator anew as well.
SnowflakeResetFrames(f, canvasWidth, canvasHeight, s) ==
    Strict(SnowflakeResetKeepFlag(f, canvasWidth, canvasHeight, s), LAMBDA r :
        [r EXCEPT !.flake.params.isAccumulated = FALSE,
                  !.flake.params.framesSinceLastUpdate = Zero])

\* Snowflake.reset(canvasWidth, canvasHeight) with the generator in state s.
SnowflakeReset(f, canvasWidth, canvasHeight, s) ==
    Strict(<<f, s>>, LAMBDA v :
        [ flake |->
            [v[1] EXCEPT
               !.params.x = random(Zero, Num(canvasWidth), v[2]),
               !.params.y = random(Num(-canvasHeight), Zero, RngAfter(v[2], 1)),
               !.params.speed =
                   random(v[1].config.speed[1], v[1].config.speed[2], RngAfter(v[2], 2)),
               !.params.wind =
                   random(v[1].config.wind[1], v[1].config.wind[2], RngAfter(v[2], 3)),
               !.params.nextSpeed =
                   random(v[1].config.speed[1], v[1].config.speed[2], RngAfter(v[2], 4)),
               !.params.nextWind =
                   random(v[1].config.wind[1], v[1].config.wind[2], RngAfter(v[2], 5)),
               !.params.isAccumulated = FALSE],
          rng |-> RngAfter(v[2], 6) ])

\* Snowflake.markAsAccumulated(atY): pins y and sets the accumulation flag.
MarkAsAccumulated(f, atY) ==
    [f EXCEPT !.params.y = atY, !.params.isAccumulated = TRUE]

\* The hit-test with the boundary of the disc left out.
ContainsPointStrict(f, px, py) ==
    Strict(<<f.params, RSub(px, f.params.x), RSub(py, f.params.y)>>, LAMBDA v :
        RLt(RAdd(RMul(v[2], v[2]), RMul(v[3], v[3])), RMul(v[1].radius, v[1].radius)))

\* Snowflake.containsPoint(px, py): the point lies within the radius of the
\* particle's centre.
ContainsPoint(f, px, py) ==
    Strict(<<f.params, RSub(px, f.params.x), RSub(py, f.params.y)>>, LAMBDA v :
        RLe(RAdd(RMul(v[2], v[2]), RMul(v[3], v[3])), RMul(v[1].radius, v[1].radius)))

\* A call on the paint context, with the image it paints if it paints one.
Paint(name) == [ call |-> name, image |-> Undefined ]

\* Snowflake.drawCircle(ctx): the calls on the paint context, in order.
SnowflakeDrawCircle(f) ==
    <<Paint("save"), Paint("beginPath"), Paint("arc"), Paint("closePath"),
      Paint("fill"), Paint("restore")>>

\* Snowflake.drawCircle3D(ctx)
SnowflakeDrawCircle3D(f) ==
    <<Paint("save"), Paint("translate"), Paint("scale"), Paint("beginPath"),
      Paint("arc"), Paint("closePath"), Paint("fill"), Paint("restore")>>

\* Snowflake.drawImage(ctx): nothing without an image; with one, the image
\* is scaled under 3D rotation and rotated in the plane otherwise.
SnowflakeDrawImage(f) ==
    IF f.params.image = Undefined
    THEN << >>
    ELSE <<Paint("save"), Paint("translate"),
           Paint(IF f.config.enable3DRotation THEN "scale" ELSE "rotate"),
           [ call |-> "drawImage", image |-> f.params.image ],
           Paint("restore")>>

\* draw with the 3D toggle tested before the image.
SnowflakeDraw3DFirst(f) ==
    IF f.config.enable3DRotation
    THEN SnowflakeDrawCircle3D(f)
    ELSE IF f.params.image # Undefined
         THEN SnowflakeDrawImage(f)
         ELSE SnowflakeDrawCircle(f)

\* Snowflake.draw(ctx)
SnowflakeDraw(f) ==
    IF f.params.image # Undefined
    THEN SnowflakeDrawImage(f)
    ELSE IF f.config.enable3DRotation
         THEN SnowflakeDrawCircle3D(f)
         ELSE SnowflakeDrawCircle(f)

\* Snowflake.createSnowflakes(count, config, canvasWidth, canvasHeight): the
\* particles are constructed one after the other, each from the generator as
\* the one before left it.
StaticCreateSnowflakes(count, config, canvasWidth, canvasHeight, s) ==
    Strict(<<config, s, DrawsPerSnowflake(config)>>, LAMBDA v :
        [ snowflakes |->
            [ i \in 1 .. count |->
                NewSnowflake(v[1], canvasWidth, canvasHeight,
                             RngAfter(v[2], v[3] * (i - 1))).flake ],
          rng |-> RngAfter(v[2], v[3] * (IF count > 0 THEN count ELSE 0)) ])

(***************************************************************************)
(* SnowfallCanvas.ts (with the click interaction of unnamed/part_001)      *)
(***************************************************************************)
VARIABLES
    phase,              \* "new", "failed", "live" or "destroyed"
    canvas,             \* the surface: width, height, hasContext, listeners, cursor
    config,             \* this.config
    snowflakes,         \* this.snowflakes
    lastUpdate,         \* this.lastUpdate
    animationFrame,     \* this.animationFrame
    isPaused,           \* this.isPaused
    accumulationHeight, \* this.accumulationHeight
    clickHandler,       \* this.clickHandler
    now,                \* Date.now()
    rng,                \* the state of Math.random()'s generator
    pending,            \* the animation frame callbacks the host holds
    op,                 \* the operation that ran last
    calls,              \* the host calls the last operation made, in order
    flake,              \* particle harness: the particle under test
    ret,                \* particle harness: the last call and its result
    steps               \* particle harness: the calls made so far

vars == <<phase, canvas, config, snowflakes, lastUpdate, animationFrame,
          isPaused, accumulationHeight, clickHandler, now, rng, pending,
          op, calls, flake, ret, steps>>

ctrlVars == <<phase, canvas, config, snowflakes, lastUpdate, animationFrame,
              isPaused, accumulationHeight, clickHandler, now, rng, pending,
              op, calls>>

harnessVars == <<flake, ret, steps>>

\* null, for a handle or a listener; handles and listeners are numbered from 1.
Null == 0

\* this.targetFps
targetFps == 60

\* The controller, its surface and its host as one record.
State ==
    [ phase |-> phase, canvas |-> canvas, config |-> config,
      snowflakes |-> snowflakes, lastUpdate |-> lastUpdate,
      animationFrame |-> animationFrame, isPaused |-> isPaused,
      accumulationHeight |-> accumulationHeight, clickHandler |-> clickHandler,
      now |-> now, rng |-> rng, pending |-> pending, calls |-> calls ]

Call(st, name, arg) ==
    [st EXCEPT !.calls = Append(@, [call |-> name, arg |-> arg])]

\* The smallest identifier, from 1, that is not in use.
Fresh(used) == CHOOSE h \in 1 .. Cardinality(used) + 1 : h \notin used

\* createSnowflakes(): the particle configuration is the controller's
\* configuration over the defaults, and the collection is built anew.
SnowflakeProps(c) ==
    [ color            |-> Nullish(c, "color", defaultSnowflakeConfig.color),
      radius           |-> Nullish(c, "radius", defaultSnowflakeConfig.radius),
      speed            |-> Nullish(c, "speed", defaultSnowflakeConfig.speed),
      wind             |-> Nullish(c, "wind", defaultSnowflakeConfig.wind),
      changeFrequency  |->
          Nullish(c, "changeFrequency", defaultSnowflakeConfig.changeFrequency),
      rotationSpeed    |->
          Nullish(c, "rotationSpeed", defaultSnowflakeConfig.rotationSpeed),
      opacity          |-> Nullish(c, "opacity", defaultSnowflakeConfig.opacity),
      enable3DRotation |->
          Nullish(c, "enable3DRotation", defaultSnowflakeConfig.enable3DRotation),
      images           |-> Nullish(c, "images", defaultSnowflakeConfig.images),
      enableAccumulation    |-> Nullish(c, "enableAccumulation", FALSE),
      accumulationMaxHeight |-> Nullish(c, "accumulationMaxHeight", Rat(3, 10)),
      accumulationRate      |-> Nullish(c, "accumulationRate", Rat(1, 100)),
      enableClickInteraction |->
          Nullish(c, "enableClickInteraction",
                  Nullish(defaultSnowflakeConfig, "enableClickInteraction", Undefined)) ]

CreateSnowflakes(st) ==
    Strict(st, LAMBDA s0 :
        Strict(StaticCreateSnowflakes(
                   Nullish(s0.config, "snowflakeCount", DefaultSnowflakeCount),
                   SnowflakeProps(s0.config),
                   s0.canvas.width, s0.canvas.height, s0.rng), LAMBDA made :
            [s0 EXCEPT !.snowflakes = made.snowflakes, !.rng = made.rng]))

\* setupClickInteraction(): the old listener is removed, and a new one is
\* added when the configuration enables the interaction.
RemoveClickHandler(st) ==
    Strict(st, LAMBDA s0 :
        IF s0.clickHandler # Null
        THEN [Call(s0, "removeEventListener", s0.clickHandler) EXCEPT
                 !.canvas.listeners = @ \ {s0.clickHandler},
                 !.clickHandler = Null]
        ELSE s0)

AddClickHandler(st) ==
    Strict(<<st, Fresh(st.canvas.listeners)>>, LAMBDA v :
        [Call(v[1], "addEventListener", v[2]) EXCEPT
            !.clickHandler = v[2],
            !.canvas.listeners = @ \cup {v[2]},
            !.canvas.cursor = "pointer"])

\* setupClickInteraction() without the removal of the old listener.
SetupClickNoRemove(st) ==
    Strict(st, LAMBDA s1 :
        IF Nullish(s1.config, "enableClickInteraction", FALSE)
        THEN AddClickHandler(s1)
        ELSE [s1 EXCEPT !.canvas.cursor = ""])

SetupClickInteraction(st) ==
    Strict(RemoveClickHandler(st), LAMBDA s1 :
        IF Nullish(s1.config, "enableClickInteraction", FALSE)
        THEN AddClickHandler(s1)
        ELSE [s1 EXCEPT !.canvas.cursor = ""])

\* update(), the accumulation of particle i: it is pinned at the top of the
\* ground layer, the layer grows while below its cap, and the particle is reset.
GrowAccumulation(st) ==
    Strict(st, LAMBDA s0 :
        IF RLt(s0.accumulationHeight,
               RMul(Nullish(s0.config, "accumulationMaxHeight", Rat(3, 10)),
                    Num(s0.canvas.height)))
        THEN [s0 EXCEPT !.accumulationHeight =
                           RAdd(@, Nullish(s0.config, "accumulationRate", Rat(1, 100)))]
        ELSE s0)

ResetSnowflake(st, i) ==
    Strict(st, LAMBDA s0 :
        Strict(SnowflakeReset(s0.snowflakes[i], s0.canvas.width, s0.canvas.height,
                              s0.rng), LAMBDA r :
            [Call(s0, "reset", i) EXCEPT !.snowflakes[i] = r.flake, !.rng = r.rng]))

\* update(), the pinning of particle i: accumulationY is computed from the
\* ground height as it is, and the particle is marked at it.
PinSnowflake(st, i) ==
    Strict(st, LAMBDA s0 :
        [Call(s0, "markAsAccumulated", i) EXCEPT
            !.snowflakes[i] =
                MarkAsAccumulated(@, RSub(Num(s0.canvas.height),
                                          s0.accumulationHeight))])

\* The accumulation of particle i without the reset that follows it.
AccumulateNoReset(st, i) ==
    Strict(st, LAMBDA s0 :
        GrowAccumulation(
            [Call(s0, "markAsAccumulated", i) EXCEPT
                !.snowflakes[i] =
                    MarkAsAccumulated(@, RSub(Num(s0.canvas.height),
                                              s0.accumulationHeight))]))

Accumulate(st, i) ==
    Strict(st, LAMBDA s0 :
        ResetSnowflake(
            GrowAccumulation(
                [Call(s0, "markAsAccumulated", i) EXCEPT
                    !.snowflakes[i] =
                        MarkAsAccumulated(@, RSub(Num(s0.canvas.height),
                                                  s0.accumulationHeight))]),
            i))

\* The body of the loop handing the particle a ground height of 0 instead of
\* the controller's current one.
UpdateSnowflakeNoGround(st, i, framesPassed) ==
    Strict(st, LAMBDA s0 :
        IF s0.snowflakes[i].params.isAccumulated
        THEN s0
        ELSE Strict(SnowflakeUpdate(s0.snowflakes[i], s0.canvas.width,
                                    s0.canvas.height, framesPassed,
                                    Zero, s0.rng), LAMBDA u :
                 Strict([Call(s0, "update", i) EXCEPT
                            !.snowflakes[i] = u.flake, !.rng = u.rng], LAMBDA s1 :
                     IF Nullish(s0.config, "enableAccumulation", FALSE)
                            /\ Truthy(u.shouldAccumulate)
                     THEN Accumulate(s1, i)
                     ELSE s1)))

\* update(), the body of the loop over the particles, for particle i.
UpdateSnowflake(st, i, framesPassed) ==
    Strict(st, LAMBDA s0 :
        IF s0.snowflakes[i].params.isAccumulated
        THEN s0
        ELSE Strict(SnowflakeUpdate(s0.snowflakes[i], s0.canvas.width,
                                    s0.canvas.height, framesPassed,
                                    s0.accumulationHeight, s0.rng), LAMBDA u :
                 Strict([Call(s0, "update", i) EXCEPT
                            !.snowflakes[i] = u.flake, !.rng = u.rng], LAMBDA s1 :
                     IF Nullish(s0.config, "enableAccumulation", FALSE)
                            /\ Truthy(u.shouldAccumulate)
                     THEN Accumulate(s1, i)
                     ELSE s1)))

\* update(), the loop over particles lo .. hi in collection order (split in
\* halves, the first half before the second).
RECURSIVE UpdateFrom(_, _, _, _)
UpdateFrom(st, lo, hi, framesPassed) ==
    Strict(st, LAMBDA s0 :
        IF lo > hi THEN s0
        ELSE IF lo = hi THEN UpdateSnowflake(s0, lo, framesPassed)
        ELSE UpdateFrom(UpdateFrom(s0, lo, (lo + hi) \div 2, framesPassed),
                        (lo + hi) \div 2 + 1, hi, framesPassed))

\* update() without the move of the elapsed-time baseline to the tick's time.
UpdateKeepBaseline(st) ==
    Strict(st, LAMBDA s0 :
        Strict(RDiv(Num(s0.now - s0.lastUpdate), RDiv(Num(1000), Num(targetFps))),
               LAMBDA framesPassed :
            UpdateFrom(s0, 1, Len(s0.snowflakes), framesPassed)))

\* update()
Update(st) ==
    Strict(st, LAMBDA s0 :
        Strict(RDiv(Num(s0.now - s0.lastUpdate), RDiv(Num(1000), Num(targetFps))),
               LAMBDA framesPassed :
            [UpdateFrom(s0, 1, Len(s0.snowflakes), framesPassed) EXCEPT
                !.lastUpdate = s0.now]))

\* render(), the loop over particles lo .. hi in collection order.
RECURSIVE DrawFrom(_, _, _)
DrawFrom(st, lo, hi) ==
    Strict(st, LAMBDA s0 :
        IF lo > hi THEN s0
        ELSE IF lo = hi
             THEN IF s0.snowflakes[lo].params.isAccumulated
                  THEN s0
                  ELSE Call(s0, "draw", lo)
             ELSE DrawFrom(DrawFrom(s0, lo, (lo + hi) \div 2),
                           (lo + hi) \div 2 + 1, hi))

\* renderAccumulatedSnow(), maxTextureLines
maxTextureLines == 50

\* renderAccumulatedSnow(), textureStep for the ground height h
TextureStep(h) ==
    Strict(Floor(RDiv(h, Num(maxTextureLines))), LAMBDA q :
        IF q > 2 THEN q ELSE 2)

\* renderAccumulatedSnow(), the texture loop from offset i on: the offsets
\* at which a stroke is painted, in order.
RECURSIVE TextureFrom(_, _, _)
TextureFrom(i, h, step) ==
    IF RLt(Num(i), h)
    THEN <<i>> \o TextureFrom(i + step, h, step)
    ELSE << >>

\* renderAccumulatedSnow(), the texture strokes for the ground height h.
TextureStrokes(h) == TextureFrom(0, h, TextureStep(h))

RenderAccumulatedSnow(st) == Call(st, "renderAccumulatedSnow", 0)

\* render() painting the ground layer whatever the configuration and the
\* ground height.
RenderGroundAlways(st) ==
    Strict(Call(st, "clearRect", 0), LAMBDA s1 :
        DrawFrom(RenderAccumulatedSnow(s1), 1, Len(s1.snowflakes)))

\* render()
Render(st) ==
    Strict(Call(st, "clearRect", 0), LAMBDA s1 :
        DrawFrom(IF /\ Nullish(s1.config, "enableAccumulation", FALSE)
                    /\ RGt(s1.accumulationHeight, Zero)
                 THEN RenderAccumulatedSnow(s1)
                 ELSE s1,
                 1, Len(s1.snowflakes)))

\* requestAnimationFrame(this.loop)
RequestAnimationFrame(st) ==
    Strict(<<st, Fresh(st.pending \cup {st.animationFrame})>>, LAMBDA v :
        [Call(v[1], "requestAnimationFrame", v[2]) EXCEPT
            !.pending = @ \cup {v[2]}, !.animationFrame = v[2]])

\* loop() without the test of the pause flag.
LoopUnguarded(st) == RequestAnimationFrame(Render(Update(st)))

\* loop() painting before it advances the particles.
LoopRenderFirst(st) ==
    Strict(st, LAMBDA s0 :
        IF s0.isPaused THEN s0 ELSE RequestAnimationFrame(Update(Render(s0))))

\* loop()
Loop(st) ==
    Strict(st, LAMBDA s0 :
        IF s0.isPaused THEN s0 ELSE RequestAnimationFrame(Render(Update(s0))))

\* play() without the test for an animation that is already playing.
PlayAlways(st) ==
    Strict(st, LAMBDA s0 :
        Loop([s0 EXCEPT !.isPaused = FALSE, !.lastUpdate = s0.now]))

\* play() without the reset of the elapsed-time baseline.
PlayKeepBaseline(st) ==
    Strict(st, LAMBDA s0 :
        IF ~s0.isPaused /\ s0.animationFrame # Null
        THEN s0
        ELSE Loop([s0 EXCEPT !.isPaused = FALSE]))

\* play()
Play(st) ==
    Strict(st, LAMBDA s0 :
        IF ~s0.isPaused /\ s0.animationFrame # Null
        THEN s0
        ELSE Loop([s0 EXCEPT !.isPaused = FALSE, !.lastUpdate = s0.now]))

\* pause() without the cancellation of the scheduled callback.
PauseNoCancel(st) == [st EXCEPT !.isPaused = TRUE]

\* pause()
Pause(st) ==
    Strict([st EXCEPT !.isPaused = TRUE], LAMBDA s1 :
        IF s1.animationFrame # Null
        THEN [Call(s1, "cancelAnimationFrame", s1.animationFrame) EXCEPT
                 !.pending = @ \ {s1.animationFrame},
                 !.animationFrame = Null]
        ELSE s1)

\* updateConfig(config) laying the new configuration over the previous one:
\* a field the new one lacks keeps its previous value.
UpdateConfigMerge(st, c) ==
    SetupClickInteraction(
        CreateSnowflakes(
            [st EXCEPT !.config = [ f \in DOMAIN c \cup DOMAIN st.config |->
                                      IF f \in DOMAIN c THEN c[f] ELSE st.config[f] ],
                       !.accumulationHeight = Zero]))

\* updateConfig(config) without the reset of the accumulation height.
UpdateConfigKeepGround(st, c) ==
    SetupClickInteraction(CreateSnowflakes([st EXCEPT !.config = c]))

\* updateConfig(config) starting the elapsed time anew.
UpdateConfigNewBaseline(st, c) ==
    SetupClickInteraction(
        CreateSnowflakes([st EXCEPT !.config = c, !.accumulationHeight = Zero,
                                    !.lastUpdate = st.now]))

\* updateConfig(config)
UpdateConfig(st, c) ==
    SetupClickInteraction(
        CreateSnowflakes([st EXCEPT !.config = c, !.accumulationHeight = Zero]))

\* resize(width, height) that also builds the collection anew for the new
\* surface.
ResizeAndRebuild(st, width, height) ==
    CreateSnowflakes([st EXCEPT !.canvas.width = width, !.canvas.height = height])

\* resize(width, height)
Resize(st, width, height) ==
    [st EXCEPT !.canvas.width = width, !.canvas.height = height]

\* destroy() without the removal of the click listener.
DestroyKeepListener(st) == [Pause(st) EXCEPT !.snowflakes = <<>>]

\* destroy()
Destroy(st) ==
    RemoveClickHandler([Pause(st) EXCEPT !.snowflakes = <<>>])

\* handleClick(event): the loop from the last particle to the first, and the
\* removal of the first one hit.
RECURSIVE HitIndex(_, _, _, _)
HitIndex(flakes, i, x, y) ==
    IF i < 1 THEN 0
    ELSE IF ContainsPoint(flakes[i], x, y) THEN i
    ELSE HitIndex(flakes, i - 1, x, y)

\* splice(i) without its count: everything from index i on is removed.
SpliceToEnd(seq, i) == SubSeq(seq, 1, i - 1)

Splice(seq, i) == SubSeq(seq, 1, i - 1) \o SubSeq(seq, i + 1, Len(seq))

ClickPoint(st, event) ==
    <<RMul(Num(event.clientX - event.left),
           RDiv(Num(st.canvas.width),
                Num(IF event.offsetWidth = 0 THEN 1 ELSE event.offsetWidth))),
      RMul(Num(event.clientY - event.top),
           RDiv(Num(st.canvas.height),
                Num(IF event.offsetHeight = 0 THEN 1 ELSE event.offsetHeight)))>>

HandleClick(st, event) ==
    Strict(<<st, ClickPoint(st, event)>>, LAMBDA v :
        Strict(HitIndex(v[1].snowflakes, Len(v[1].snowflakes), v[2][1], v[2][2]),
               LAMBDA i :
            IF i = 0 THEN v[1] ELSE [v[1] EXCEPT !.snowflakes = Splice(@, i)]))

\* The constructor without its final play().
ConstructorNoPlay(st, c) ==
    Strict(st, LAMBDA s0 :
        IF ~s0.canvas.hasContext
        THEN [Call(s0, "throw", 0) EXCEPT !.phase = "failed"]
        ELSE SetupClickInteraction(
                 CreateSnowflakes([s0 EXCEPT !.phase = "live", !.config = c])))

\* The constructor without the test of the paint context.
ConstructorNoCheck(st, c) ==
    Play(SetupClickInteraction(
        CreateSnowflakes([st EXCEPT !.phase = "live", !.config = c])))

\* new SnowfallCanvas(canvas, config)
Constructor(st, c) ==
    Strict(st, LAMBDA s0 :
        IF ~s0.canvas.hasContext
        THEN [Call(s0, "throw", 0) EXCEPT !.phase = "failed"]
        ELSE Play(SetupClickInteraction(
                 CreateSnowflakes([s0 EXCEPT !.phase = "live", !.config = c]))))

(***************************************************************************)
(* The inputs the operations are given.                                    *)
(***************************************************************************)
\* Surface sizes, <<width, height>>.
Sizes == {<<4, 6>>, <<8, 1>>}

\* Configuration objects; a field a configuration lacks is absent from it.
ConfigClick ==
    [ snowflakeCount |-> 2, changeFrequency |-> Num(3),
      radius |-> <<Num(1), Num(2)>>, wind |-> <<Num(-2), Num(2)>>,
      enableClickInteraction |-> TRUE ]

ConfigAccumulate ==
    [ snowflakeCount |-> 2, changeFrequency |-> Num(6),
      speed |-> <<Num(1), Num(2)>>, enable3DRotation |-> TRUE,
      enableAccumulation |-> TRUE, accumulationMaxHeight |-> Rat(1, 2),
      accumulationRate |-> Num(1) ]

ConfigDefaultCount == [ changeFrequency |-> Num(3) ]

Configs == {ConfigClick, ConfigAccumulate}

\* Milliseconds by which the clock advances between operations.
DeltaMs == {50}

\* Click events: the pointer position, the surface's bounding box origin and
\* its displayed size.
ClickEvents ==
    { [ clientX |-> x, clientY |-> 1, left |-> 1, top |-> 1,
        offsetWidth |-> ow, offsetHeight |-> 3 ] :
      x \in {2}, ow \in {0, 4} }

\* Particle harness: the coordinates of the points that are hit-tested.
PointCoordinates == {0, 2, 3, 6, 7}

\* Particle harness: elapsed frame units, ground heights and pin positions.
FrameUnits == {Zero, Num(3), Num(6)}

GroundHeights == {Zero, Num(1)}

HarnessConfigs == {ConfigClick, ConfigAccumulate}

\* Particle harness: a particle configuration handed to new Snowflake
\* directly, the defaults with a short change frequency.
DirectConfig == [defaultSnowflakeConfig EXCEPT !.changeFrequency = Num(3)]

\* Particle harness: the configurations of the particle, those the
\* controller builds and the direct one.
ParticleConfigs == { SnowflakeProps(c) : c \in HarnessConfigs } \cup {DirectConfig}

(***************************************************************************)
(* The controller's operations as actions.                                 *)
(***************************************************************************)
Constructed == {"live", "destroyed"}

Start == [State EXCEPT !.calls = <<>>]

Commit(st0, name) ==
  \E st \in {st0} :
    /\ phase' = st.phase
    /\ canvas' = st.canvas
    /\ config' = st.config
    /\ snowflakes' = st.snowflakes
    /\ lastUpdate' = st.lastUpdate
    /\ animationFrame' = st.animationFrame
    /\ isPaused' = st.isPaused
    /\ accumulationHeight' = st.accumulationHeight
    /\ clickHandler' = st.clickHandler
    /\ now' = st.now
    /\ rng' = st.rng
    /\ pending' = st.pending
    /\ calls' = st.calls
    /\ op' = name
    /\ UNCHANGED harnessVars

ConstructAct ==
    /\ phase = "new"
    /\ \E c \in Configs : Commit(Constructor(Start, c), "construct")

\* The host delivers a pending animation frame callback.
Tick ==
    /\ phase \in Constructed
    /\ \E h \in pending :
          Commit(Loop([Start EXCEPT !.pending = @ \ {h}]), "tick")

PlayAct ==
    /\ phase \in Constructed
    /\ Commit(Play(Start), "play")

PauseAct ==
    /\ phase \in Constructed
    /\ Commit(Pause(Start), "pause")

UpdateConfigAct ==
    /\ phase \in Constructed
    /\ \E c \in Configs : Commit(UpdateConfig(Start, c), "updateConfig")

ResizeAct ==
    /\ phase \in Constructed
    /\ \E sz \in Sizes : Commit(Resize(Start, sz[1], sz[2]), "resize")

DestroyAct ==
    /\ phase \in Constructed
    /\ Commit([Destroy(Start) EXCEPT !.phase = "destroyed"], "destroy")

\* A click on the surface runs every click listener attached to it.
RECURSIVE Dispatch(_, _, _)
Dispatch(st, listeners, event) ==
    Strict(<<st, listeners>>, LAMBDA v :
        IF v[2] = {}
        THEN v[1]
        ELSE Dispatch(HandleClick(v[1], event),
                      v[2] \ {CHOOSE l \in v[2] : TRUE}, event))

ClickAct ==
    /\ phase \in Constructed
    /\ canvas.listeners # {}
    /\ \E e \in ClickEvents : Commit(Dispatch(Start, canvas.listeners, e), "click")

\* Time passes between operations.
AdvanceClock ==
    /\ phase \in Constructed
    /\ \E d \in DeltaMs :
          /\ now + d <= MaxTime
          /\ now' = now + d
    /\ UNCHANGED <<phase, canvas, config, snowflakes, lastUpdate, animationFrame,
                   isPaused, accumulationHeight, clickHandler, rng, pending,
                   op, calls>>
    /\ UNCHANGED harnessVars

\* A callback that pause() cancelled is delivered all the same, before the
\* next play().  A conforming host never does this.
StaleCallback ==
    /\ phase \in Constructed
    /\ isPaused
    /\ Commit(Loop(Start), "stale")

Init ==
    /\ phase = "new"
    /\ \E sz \in Sizes, ok \in BOOLEAN :
          canvas = [ width |-> sz[1], height |-> sz[2], hasContext |-> ok,
                     listeners |-> {}, cursor |-> "" ]
    /\ config = << >>
    /\ snowflakes = << >>
    /\ now = 0
    /\ lastUpdate = 0
    /\ animationFrame = Null
    /\ isPaused = FALSE
    /\ accumulationHeight = Zero
    /\ clickHandler = Null
    /\ rng \in 0 .. RandMod - 1
    /\ pending = {}
    /\ op = "new"
    /\ calls = << >>
    /\ flake = << >>
    /\ ret = << >>
    /\ steps = 0

Next ==
    \/ ConstructAct
    \/ Tick
    \/ PlayAct
    \/ PauseAct
    \/ UpdateConfigAct
    \/ ResizeAct
    \/ DestroyAct
    \/ ClickAct
    \/ AdvanceClock

Spec == Init /\ [][Next]_vars

SpecStale == Init /\ [][Next \/ StaleCallback]_vars

(***************************************************************************)
(* The controller on a surface that is never resized.                      *)
(***************************************************************************)
NextNoResize ==
    \/ ConstructAct
    \/ Tick
    \/ PlayAct
    \/ PauseAct
    \/ UpdateConfigAct
    \/ DestroyAct
    \/ ClickAct
    \/ AdvanceClock

SpecNoResize == Init /\ [][NextNoResize]_vars

(***************************************************************************)
(* Construction alone, over every configuration, the one without a         *)
(* particle count included.                                                *)
(***************************************************************************)
ConstructAny ==
    /\ phase = "new"
    /\ \E c \in Configs \cup {ConfigDefaultCount} :
          Commit(Constructor(Start, c), "construct")

UpdateConfigAny ==
    /\ phase \in Constructed
    /\ \E c \in Configs \cup {ConfigDefaultCount} :
          Commit(UpdateConfig(Start, c), "updateConfig")

NextConstruct ==
    \/ ConstructAny
    \/ UpdateConfigAny
    \/ PlayAct
    \/ PauseAct
    \/ DestroyAct

SpecConstruct == Init /\ [][NextConstruct]_vars

(***************************************************************************)
(* The particle harness: one particle, constructed and then called.        *)
(***************************************************************************)
ctrlRest == <<phase, canvas, config, snowflakes, lastUpdate, animationFrame,
              isPaused, accumulationHeight, clickHandler, now, pending,
              op, calls>>

Returned(name, width, height, framesPassed, ground, before, result) ==
    [ op |-> name, width |-> width, height |-> height,
      framesPassed |-> framesPassed, accumulationHeight |-> ground,
      before |-> before, result |-> result ]

InitFlake ==
    /\ phase = "harness"
    /\ canvas = [ width |-> 0, height |-> 0, hasContext |-> TRUE,
                  listeners |-> {}, cursor |-> "" ]
    /\ config = << >>
    /\ snowflakes = << >>
    /\ now = 0
    /\ lastUpdate = 0
    /\ animationFrame = Null
    /\ isPaused = FALSE
    /\ accumulationHeight = Zero
    /\ clickHandler = Null
    /\ pending = {}
    /\ op = "new"
    /\ calls = << >>
    /\ steps = 0
    /\ \E c \in ParticleConfigs, sz \in Sizes, s \in 0 .. RandMod - 1 :
          LET n == NewSnowflake(c, sz[1], sz[2], s)
          IN  /\ flake = n.flake
              /\ rng = n.rng
              /\ ret = Returned("new", sz[1], sz[2], Zero, Zero, n.flake, FALSE)

FlakeUpdate ==
    /\ steps < MaxSteps
    /\ \E sz \in Sizes, f \in FrameUnits, g \in GroundHeights :
          LET u == SnowflakeUpdate(flake, sz[1], sz[2], f, g, rng)
          IN  /\ flake' = u.flake
              /\ rng' = u.rng
              /\ ret' = Returned("update", sz[1], sz[2], f, g, flake,
                                 u.shouldAccumulate)
    /\ steps' = steps + 1
    /\ UNCHANGED ctrlRest

FlakeReset ==
    /\ steps < MaxSteps
    /\ \E sz \in Sizes :
          LET r == SnowflakeReset(flake, sz[1], sz[2], rng)
          IN  /\ flake' = r.flake
              /\ rng' = r.rng
              /\ ret' = Returned("reset", sz[1], sz[2], Zero, Zero, flake, FALSE)
    /\ steps' = steps + 1
    /\ UNCHANGED ctrlRest

FlakeMark ==
    /\ steps < MaxSteps
    /\ \E sz \in Sizes, g \in GroundHeights :
          /\ flake' = MarkAsAccumulated(flake, RSub(Num(sz[2]), g))
          /\ ret' = Returned("markAsAccumulated", sz[1], sz[2], Zero, g, flake, FALSE)
    /\ steps' = steps + 1
    /\ UNCHANGED rng
    /\ UNCHANGED ctrlRest

NextFlake ==
    \/ FlakeUpdate
    \/ FlakeReset
    \/ FlakeMark

SpecFlake == InitFlake /\ [][NextFlake]_vars

\* update with elapsed frame units from 0 to the change frequency of the
\* particle.
FlakeUpdateWithin ==
    /\ FlakeUpdate
    /\ RLe(Zero, ret'.framesPassed)
    /\ RLe(ret'.framesPassed, flake.config.changeFrequency)

NextWithin ==
    \/ FlakeUpdateWithin
    \/ FlakeReset

\* The particle harness with every update within the change frequency.
SpecWithin == InitFlake /\ [][NextWithin]_vars

(***************************************************************************)
(* The configuration harness: mergeConfig is called on a user object.      *)
(***************************************************************************)
\* The object with the one field name when o is <<value>>, and with no field
\* when o is << >>.
Field(name, o) == [ f \in (IF o = << >> THEN {} ELSE {name}) |-> o[1] ]

\* User configuration objects: each field is absent, or present with one of
\* a few values, undefined included.
UserConfigs ==
    { Field("color", c) @@ Field("snowflakeCount", n)
          @@ Field("changeFrequency", f) @@ Field("enableAccumulation", a)
          @@ Field("images", i) :
      c \in {<< >>, <<"#ffffff">>, <<Undefined>>},
      n \in {<< >>, <<0>>, <<300>>},
      f \in {<< >>, <<Num(3)>>},
      a \in {<< >>, <<TRUE>>, <<FALSE>>},
      i \in {<< >>, <<Undefined>>} }

\* The arguments of a mergeConfig call: none, or one user object.
MergeArguments == {<< >>} \cup { <<u>> : u \in UserConfigs }

InitMerge ==
    /\ phase = "harness"
    /\ canvas = [ width |-> 0, height |-> 0, hasContext |-> TRUE,
                  listeners |-> {}, cursor |-> "" ]
    /\ config \in MergeArguments
    /\ snowflakes = << >>
    /\ now = 0
    /\ lastUpdate = 0
    /\ animationFrame = Null
    /\ isPaused = FALSE
    /\ accumulationHeight = Zero
    /\ clickHandler = Null
    /\ rng = 0
    /\ pending = {}
    /\ op = "new"
    /\ calls = << >>
    /\ flake = << >>
    /\ ret = [ op |-> "new" ]
    /\ steps = 0

\* mergeConfig(...config): the call reads its argument and the defaults and
\* returns a new object.
MergeAct ==
    /\ ret.op = "new"
    /\ ret' = [ op |-> "mergeConfig", args |-> config,
                defaults |-> defaultConfig, result |-> mergeConfig(config) ]
    /\ UNCHANGED <<phase, canvas, config, snowflakes, lastUpdate, animationFrame,
                   isPaused, accumulationHeight, clickHandler, now, rng, pending,
                   op, calls, flake, steps>>

SpecMerge == InitMerge /\ [][MergeAct]_vars

(***************************************************************************)
(* The drawing harness: one particle, built with or without an image pool, *)
(* is moved, reset and drawn.                                              *)
(***************************************************************************)
\* The images of the pools.
Images == <<"flake.png", "star.png">>

\* The image pool number k: none, an empty one, one image, two images.
ImagePool(k) == IF k = 0 THEN Undefined ELSE SubSeq(Images, 1, k - 1)

ImagePools == 0 .. Len(Images) + 1

\* A particle configuration with image pool k and the 3D toggle e3; its
\* change frequency is more than the shortest update.
DrawConfig(k, e3) ==
    [DirectConfig EXCEPT !.images = ImagePool(k), !.enable3DRotation = e3,
                         !.changeFrequency = Num(6)]

InitDraw ==
    /\ phase = "harness"
    /\ canvas = [ width |-> 0, height |-> 0, hasContext |-> TRUE,
                  listeners |-> {}, cursor |-> "" ]
    /\ config = << >>
    /\ snowflakes = << >>
    /\ now = 0
    /\ lastUpdate = 0
    /\ animationFrame = Null
    /\ isPaused = FALSE
    /\ accumulationHeight = Zero
    /\ clickHandler = Null
    /\ pending = {}
    /\ op = "new"
    /\ calls = << >>
    /\ steps = 0
    /\ \E k \in ImagePools, e3 \in BOOLEAN, sz \in Sizes, s \in 0 .. RandMod - 1 :
          LET n == NewSnowflake(DrawConfig(k, e3), sz[1], sz[2], s)
          IN  /\ flake = n.flake
              /\ rng = n.rng
              /\ ret = Returned("new", sz[1], sz[2], Zero, Zero, n.flake, FALSE)

\* draw(ctx): the particle is read and the paint context is called.
FlakeDraw ==
    /\ steps < MaxSteps
    /\ ret' = Returned("draw", ret.width, ret.height, Zero, Zero, flake,
                       SnowflakeDraw(flake))
    /\ steps' = steps + 1
    /\ UNCHANGED <<flake, rng>>
    /\ UNCHANGED ctrlRest

NextDraw ==
    \/ FlakeUpdate
    \/ FlakeReset
    \/ FlakeDraw

SpecDraw == InitDraw /\ [][NextDraw]_vars

(***************************************************************************)
(* The ground layer harness: the layer is painted for a ground height.     *)
(***************************************************************************)
\* The highest ground height painted.
MaxGround == 240

\* Ground heights above 0, in steps of a half.
PaintedHeights == { Rat(n, 2) : n \in 1 .. 2 * MaxGround }

InitTexture ==
    /\ phase = "harness"
    /\ canvas = [ width |-> 8, height |-> MaxGround, hasContext |-> TRUE,
                  listeners |-> {}, cursor |-> "" ]
    /\ config = << >>
    /\ snowflakes = << >>
    /\ now = 0
    /\ lastUpdate = 0
    /\ animationFrame = Null
    /\ isPaused = FALSE
    /\ accumulationHeight \in PaintedHeights
    /\ clickHandler = Null
    /\ rng = 0
    /\ pending = {}
    /\ op = "new"
    /\ calls = << >>
    /\ flake = << >>
    /\ ret = [ op |-> "new" ]
    /\ steps = 0

\* renderAccumulatedSnow(): the texture strokes are painted for the ground
\* height; nothing of the controller changes.
TextureAct ==
    /\ ret.op = "new"
    /\ ret' = [ op |-> "renderAccumulatedSnow",
                textureStep |-> TextureStep(accumulationHeight),
                strokes |-> TextureStrokes(accumulationHeight) ]
    /\ UNCHANGED <<phase, canvas, config, snowflakes, lastUpdate, animationFrame,
                   isPaused, accumulationHeight, clickHandler, now, rng, pending,
                   op, calls, flake, steps>>

SpecTexture == InitTexture /\ [][TextureAct]_vars

(***************************************************************************)
(* The controller's scheduling.                                            *)
(***************************************************************************)
\* The last operation scheduled exactly one callback, as its last host call.
ScheduledLast(log) ==
    /\ log # << >>
    /\ \A i \in DOMAIN log : log[i].call = "requestAnimationFrame" <=> i = Len(log)

\* Between operations of a constructed controller a callback is pending
\* exactly when the controller is not paused, it is the one the controller
\* holds the handle of, and there is never more than one.
PendingIffPlaying ==
    phase \in Constructed =>
        /\ Cardinality(pending) <= 1
        /\ (pending # {}) <=> ~isPaused
        /\ pending = IF isPaused THEN {} ELSE {animationFrame}
        /\ isPaused => animationFrame = Null

\* A step of a constructed controller after which a new callback is pending
\* is a tick, or a play() made while paused, and it schedules one callback,
\* at its end.
ScheduledOnlyByTickOrResume ==
    (phase \in Constructed /\ pending' \ pending # {}) =>
        /\ \/ op' = "tick"
           \/ op' = "play" /\ isPaused
        /\ ScheduledLast(calls')

\* C1: for a constructed controller, under any sequence of play(), pause(),
\* resize(), updateConfig(), clicks and fired ticks, between operations a tick
\* is pending if and only if the controller is Playing, never more than one is
\* pending, and a new tick is scheduled only at the end of a tick or by a
\* play() from Paused.
C1_TickPendingIffPlaying ==
    /\ []PendingIffPlaying
    /\ [][ScheduledOnlyByTickOrResume]_vars

\* A play() on a paused controller has run a tick and scheduled the next one.
C1_Witness ==
    /\ phase = "live"
    /\ op = "play"
    /\ ScheduledLast(calls)
    /\ pending = {animationFrame}
    /\ ~isPaused

\* C2: from pause() until the next play() no tick takes effect, even if a
\* callback scheduled earlier is delivered: no particle is advanced, the
\* ground height and the last-tick timestamp stay as they are, nothing is
\* painted and nothing is scheduled.
C2_NoTickWhilePaused ==
    [][(phase \in Constructed /\ isPaused /\ op' \in {"tick", "stale"}) =>
          /\ snowflakes' = snowflakes
          /\ accumulationHeight' = accumulationHeight
          /\ lastUpdate' = lastUpdate
          /\ rng' = rng
          /\ pending' = pending
          /\ animationFrame' = animationFrame
          /\ isPaused'
          /\ calls' = << >>]_vars

\* A cancelled callback was delivered to a paused controller that has
\* particles, after time had passed since its last tick.
C2_Witness ==
    /\ phase = "live"
    /\ op = "stale"
    /\ isPaused
    /\ snowflakes # << >>
    /\ now > lastUpdate

\* C3: pause() is idempotent and play() on a Playing controller is a no-op:
\* pause(); pause() leaves the state pause() leaves, with no second
\* cancellation, and play() while Playing runs no tick, schedules nothing and
\* leaves the elapsed-time baseline alone.
C3_PauseIdempotentPlayNoOp ==
    phase \in Constructed =>
        /\ Pause(Pause(Start)) = Pause(Start)
        /\ ~isPaused => Play(Start) = Start
        /\ isPaused => Pause(Start) = Start

\* play() was called on a Playing controller whose baseline is in the past.
C3_Witness ==
    /\ phase = "live"
    /\ op = "play"
    /\ calls = << >>
    /\ ~isPaused
    /\ pending # {}
    /\ lastUpdate < now

(***************************************************************************)
(* Construction and teardown.                                              *)
(***************************************************************************)
\* The particle count the configuration asks for.
ConfiguredCount == Nullish(config, "snowflakeCount", DefaultSnowflakeCount)

\* The largest radius the configuration allows a particle.
MaxRadius == SnowflakeProps(config).radius[2]

\* The state right after a successful construction.
JustConstructed == op = "construct" /\ phase = "live"

\* C4 as stated: successful construction leaves the controller Playing with
\* one tick pending, ground height 0, and as many particles as the configured
\* snowflakeCount (150 when the count is not given).
C4_AsStated ==
    JustConstructed =>
        /\ ~isPaused
        /\ Cardinality(pending) = 1
        /\ accumulationHeight = Zero
        /\ Len(snowflakes) = ConfiguredCount

\* C4, amended: successful construction leaves the controller Playing with
\* one tick pending and as many particles as the configured snowflakeCount
\* (150 when the count is not given); the ground height is 0 when accumulation
\* is disabled or the surface is at least as high as the largest radius, and
\* otherwise it is what the constructor's own first tick has accumulated.
C4_ConstructionPostState ==
    JustConstructed =>
        /\ ~isPaused
        /\ Cardinality(pending) = 1
        /\ pending = {animationFrame}
        /\ Len(snowflakes) = ConfiguredCount
        /\ (\/ ~Nullish(config, "enableAccumulation", FALSE)
            \/ RLe(MaxRadius, Num(canvas.height)))
              => accumulationHeight = Zero
        /\ RGe(accumulationHeight, Zero)
        /\ RGt(accumulationHeight, Zero) =>
              \E i \in DOMAIN calls : calls[i].call = "markAsAccumulated"

\* A construction without a particle count has made 150 particles.
C4_Witness ==
    /\ JustConstructed
    /\ "snowflakeCount" \notin DOMAIN config
    /\ Len(snowflakes) = DefaultSnowflakeCount
    /\ ~isPaused

\* C5: when the surface yields no 2D paint context, construction fails with
\* an error and has no other effect: no particle is created, no tick is run
\* or scheduled, and no click listener is attached; and construction fails in
\* no other case.
C5_FailedConstruction ==
    /\ (op = "construct" /\ ~canvas.hasContext) =>
          /\ phase = "failed"
          /\ calls = <<[call |-> "throw", arg |-> 0]>>
          /\ snowflakes = << >>
          /\ pending = {}
          /\ animationFrame = Null
          /\ canvas.listeners = {}
          /\ clickHandler = Null
          /\ accumulationHeight = Zero
    /\ phase = "failed" => (op = "construct" /\ ~canvas.hasContext)

\* A construction over a surface without a paint context has thrown.
C5_Witness ==
    /\ phase = "failed"
    /\ op = "construct"
    /\ ~canvas.hasContext
    /\ Len(calls) = 1

\* C6: immediately after destroy(), from any state, the controller is Paused,
\* no tick is pending, the collection is empty and no click listener is
\* attached; a second destroy() changes nothing.
C6_DestroyPostState ==
    op = "destroy" =>
        /\ isPaused
        /\ pending = {}
        /\ animationFrame = Null
        /\ snowflakes = << >>
        /\ canvas.listeners = {}
        /\ clickHandler = Null
        /\ Destroy(Start) = Start

\* destroy() ran on a Playing controller with a click listener: it cancelled
\* the pending tick and removed the listener.
C6_Witness ==
    /\ op = "destroy"
    /\ Len(calls) = 2
    /\ calls[1].call = "cancelAnimationFrame"
    /\ calls[2].call = "removeEventListener"

\* C7: destroy() is terminal: after destroy(), whatever is called next, the
\* controller never returns to Playing, no tick runs, the collection stays
\* empty and no click listener is attached again.
C7_DestroyTerminal ==
    phase = "destroyed" =>
        /\ isPaused
        /\ pending = {}
        /\ snowflakes = << >>
        /\ canvas.listeners = {}
        /\ op # "tick"

(***************************************************************************)
(* The particle.                                                           *)
(***************************************************************************)
\* lo <= v <= hi
Within(v, range) == RLe(range[1], v) /\ RLe(v, range[2])

\* 0 <= angle < 360
IsAngle(a) == RLe(Zero, a) /\ RLt(a, Num(360))

\* The four angles of a particle are in [0, 360).
AnglesInRange(p) ==
    /\ IsAngle(p.rotation)
    /\ IsAngle(p.rotationX)
    /\ IsAngle(p.rotationY)
    /\ IsAngle(p.rotationZ)

\* C8: a particle the constructor produced has 0 <= x < width,
\* -height <= y < 0, radius, speed, wind, nextSpeed, nextWind, rotationSpeed
\* and opacity each inside its configured range, all four angles in
\* [0, 360), frame accumulator 0 and accumulation flag false.
C8_ConstructorRanges ==
    ret.op = "new" =>
        /\ RLe(Zero, flake.params.x) /\ RLt(flake.params.x, Num(ret.width))
        /\ RLe(Num(-ret.height), flake.params.y) /\ RLt(flake.params.y, Zero)
        /\ Within(flake.params.radius, flake.config.radius)
        /\ Within(flake.params.speed, flake.config.speed)
        /\ Within(flake.params.wind, flake.config.wind)
        /\ Within(flake.params.nextSpeed, flake.config.speed)
        /\ Within(flake.params.nextWind, flake.config.wind)
        /\ Within(flake.params.rotationSpeed, flake.config.rotationSpeed)
        /\ Within(flake.params.opacity, flake.config.opacity)
        /\ AnglesInRange(flake.params)
        /\ flake.params.framesSinceLastUpdate = Zero
        /\ flake.params.isAccumulated = FALSE

\* A particle was constructed with a negative rotation speed, away from the
\* left edge, with a radius strictly inside its range.
C8_Witness ==
    /\ ret.op = "new"
    /\ RLt(flake.params.rotationSpeed, Zero)
    /\ RGt(flake.params.x, Zero)
    /\ RGt(flake.params.radius, flake.config.radius[1])
    /\ RLt(flake.params.radius, flake.config.radius[2])

\* C9: after each update with non-negative elapsed frame units, for any
\* rotationSpeed in the configured range, negative values included, the
\* planar angle and, with 3D rotation enabled, the three axis angles lie in
\* [0, 360).
C9_AnglesAfterUpdate ==
    ret.op = "update" =>
        /\ IsAngle(flake.params.rotation)
        /\ flake.config.enable3DRotation =>
              /\ IsAngle(flake.params.rotationX)
              /\ IsAngle(flake.params.rotationY)
              /\ IsAngle(flake.params.rotationZ)

\* The particle of the wrap example: width = height = 100, radius = 2.
ExampleParticle(x, y) == [ x |-> Num(x), y |-> Num(y), radius |-> Num(2) ]

\* The position of the particle of the last update after the move and before
\* the wrap.
Moved ==
    UpdateMotion(ret.before.config, ret.before.params, ret.framesPassed)

\* C10: after every update the particle has y <= height and
\* -radius <= x <= width + radius: a y past the height after the move becomes
\* exactly -radius, an x past width + radius becomes exactly -radius, an x
\* below -radius becomes exactly width + radius, and a position within the
\* bounds stays; with width = height = 100 and radius = 2, y = 150 gives -2,
\* x = 103 gives -2 and x = -5 gives 102.
C10_WrapBounds ==
    /\ ret.op = "update" =>
          /\ RLe(flake.params.y, Num(ret.height))
          /\ RLe(RNeg(flake.params.radius), flake.params.x)
          /\ RLe(flake.params.x, RAdd(Num(ret.width), flake.params.radius))
          /\ flake.params.y =
                IF RGt(Moved.y, Num(ret.height))
                THEN RNeg(flake.params.radius) ELSE Moved.y
          /\ flake.params.x =
                IF RGt(Moved.x, RAdd(Num(ret.width), flake.params.radius))
                THEN RNeg(flake.params.radius)
                ELSE IF RLt(Moved.x, RNeg(flake.params.radius))
                     THEN RAdd(Num(ret.width), flake.params.radius)
                     ELSE Moved.x
    /\ WrapVertical(ExampleParticle(50, 150), 100).y = Num(-2)
    /\ WrapHorizontal(ExampleParticle(103, 50), 100).x = Num(-2)
    /\ WrapHorizontal(ExampleParticle(-5, 50), 100).x = Num(102)

\* An update moved the particle past the bottom edge and it re-entered at
\* y = -radius.
C10_Witness ==
    /\ ret.op = "update"
    /\ RGt(Moved.y, Num(ret.height))
    /\ flake.params.y = RNeg(flake.params.radius)

\* a + (b - a) * t, the interpolation written out.
Interpolated(a, b, t) == RAdd(a, RMul(RSub(b, a), t))

\* The interpolation fraction of the last update.
Fraction == RDiv(ret.framesPassed, ret.before.config.changeFrequency)

\* The particle of the target-tracking example: speed 1 toward 5.
ExampleTracking ==
    [ speed |-> Num(1), nextSpeed |-> Num(5), wind |-> Num(0),
      nextWind |-> Num(2), x |-> Num(0), y |-> Num(0) ]

\* C11: update sets speed to lerp(speed, nextSpeed, t) and wind to
\* lerp(wind, nextWind, t) with t = framesPassed / changeFrequency, without
\* clamping t, and then moves the particle by the new speed and wind; with
\* speed 1, nextSpeed 5, changeFrequency 10 and 5 elapsed frames the speed
\* becomes 3.
C11_TargetTracking ==
    /\ ret.op = "update" =>
          /\ flake.params.speed =
                Interpolated(ret.before.params.speed,
                             ret.before.params.nextSpeed, Fraction)
          /\ flake.params.wind =
                Interpolated(ret.before.params.wind,
                             ret.before.params.nextWind, Fraction)
          /\ Moved.y = RAdd(ret.before.params.y,
                            RMul(flake.params.speed, ret.framesPassed))
          /\ Moved.x = RAdd(ret.before.params.x,
                            RMul(flake.params.wind, ret.framesPassed))
          /\ flake.params.y \in {Moved.y, RNeg(flake.params.radius)}
          /\ flake.params.x \in {Moved.x, RNeg(flake.params.radius),
                                 RAdd(Num(ret.width), flake.params.radius)}
    /\ UpdateMotion([changeFrequency |-> Num(10)], ExampleTracking, Num(5)).speed
          = Num(3)
    /\ UpdateMotion([changeFrequency |-> Num(10)], ExampleTracking, Num(5)).y
          = Num(15)

\* An update with a fraction above 1 carried the speed past its target, and
\* the particle moved by the new speed without wrapping.
C11_Witness ==
    /\ ret.op = "update"
    /\ RGt(Fraction, Num(1))
    /\ RLt(ret.before.params.speed, ret.before.params.nextSpeed)
    /\ RGt(flake.params.speed, ret.before.params.nextSpeed)
    /\ flake.params.y = Moved.y
    /\ flake.params.speed # ret.before.params.speed

(***************************************************************************)
(* The ground layer.                                                       *)
(***************************************************************************)
\* The cap of the ground height: accumulationMaxHeight times the surface
\* height.
MaxAccumulationHeight ==
    RMul(Nullish(config, "accumulationMaxHeight", Rat(3, 10)), Num(canvas.height))

\* The controller of the saturation example: cap 20 (a fifth of a surface
\* 100 high), rate 5, ground height g.
ExampleGround(g) ==
    [ accumulationHeight |-> g,
      config |-> [ accumulationMaxHeight |-> Rat(1, 5), accumulationRate |-> Num(5) ],
      canvas |-> [ height |-> 100 ] ]

\* The ground height of the example after one more accumulation event.
ExampleGrow(g) == GrowAccumulation(ExampleGround(g)).accumulationHeight

\* C12: with accumulation enabled and no resize, the ground height never
\* exceeds accumulationMaxHeight times the surface height, whatever the
\* rate; with cap 20 and rate 5 it is exactly 20 after four accumulation
\* events and stays 20 on every later one.
C12_GroundHeightCapped ==
    /\ (phase \in Constructed /\ Nullish(config, "enableAccumulation", FALSE)) =>
          RLe(accumulationHeight, MaxAccumulationHeight)
    /\ ExampleGrow(ExampleGrow(ExampleGrow(ExampleGrow(Zero)))) = Num(20)
    /\ ExampleGrow(Num(20)) = Num(20)

\* The last operation pinned a particle to the ground layer.
Accumulated(log) == \E i \in DOMAIN log : log[i].call = "markAsAccumulated"

\* A step leaves the ground height at least what it was, unless it is an
\* updateConfig().
GroundGrowsOrReconfigured ==
    \/ RGe(accumulationHeight', accumulationHeight)
    \/ op' = "updateConfig"

\* C13: the ground height never decreases under ticks, play(), pause(),
\* resize(), clicks and destroy(); the only operation that lowers it is
\* updateConfig(), which sets it to exactly 0.
C13_GroundMonotone ==
    /\ [](op = "updateConfig" => accumulationHeight = Zero)
    /\ [][GroundGrowsOrReconfigured]_vars

\* A tick pinned a particle and the ground height is above 0.
C13_Witness ==
    /\ phase = "live"
    /\ op = "tick"
    /\ Accumulated(calls)
    /\ RGt(accumulationHeight, Zero)

(***************************************************************************)
(* The particle collection.                                                *)
(***************************************************************************)
\* No particle of the collection has its accumulation flag set.
NoneAccumulated ==
    \A i \in DOMAIN snowflakes : ~snowflakes[i].params.isAccumulated

\* A step that changes the length of the collection of a constructed
\* controller is a click (one less), an updateConfig() (the configured
\* count) or a destroy() (none).
LengthChangesOnlyByRemoval ==
    (phase \in Constructed /\ Len(snowflakes') # Len(snowflakes)) =>
        \/ op' = "click" /\ Len(snowflakes') = Len(snowflakes) - 1
        \/ op' = "updateConfig"
              /\ Len(snowflakes') =
                    Nullish(config', "snowflakeCount", DefaultSnowflakeCount)
        \/ op' = "destroy" /\ snowflakes' = << >>

\* C14: accumulation never shrinks the live population: at the end of every
\* tick (and so between any two operations) no particle of the collection
\* has its accumulation flag set, and the length of the collection changes
\* only by a click (minus one), an updateConfig() (the configured count) or a
\* destroy() (emptied), never by a tick, play(), pause() or resize().
C14_PopulationKept ==
    /\ [](phase \in Constructed => NoneAccumulated)
    /\ [][LengthChangesOnlyByRemoval]_vars

\* A tick pinned a particle, reset it, and the collection is as long as
\* configured.
C14_Witness ==
    /\ phase = "live"
    /\ op = "tick"
    /\ \E i \in DOMAIN calls :
          /\ calls[i].call = "markAsAccumulated"
          /\ i < Len(calls)
          /\ calls[i + 1] = [call |-> "reset", arg |-> calls[i].arg]
    /\ Len(snowflakes) = ConfiguredCount
    /\ Len(snowflakes) > 0

\* The indices of the particles whose hit-test succeeds at the point the
\* click event maps to.
Hits(e) ==
    Strict(ClickPoint(Start, e), LAMBDA pt :
        { i \in DOMAIN snowflakes : ContainsPoint(snowflakes[i], pt[1], pt[2]) })

\* The largest element of a non-empty set of indices.
Highest(set) == CHOOSE i \in set : \A j \in set : j <= i

\* after is before without its element at index i, the others in order.
RemovedAt(before, after, i) ==
    /\ Len(after) = Len(before) - 1
    /\ \A j \in 1 .. i - 1 : after[j] = before[j]
    /\ \A j \in i + 1 .. Len(before) : after[j - 1] = before[j]

\* What handleClick(e) does to the collection, and that it does nothing else.
ClickRemovesTopmostHit(e) ==
    Strict(<<Hits(e), HandleClick(Start, e)>>, LAMBDA v :
        /\ v[2] = [Start EXCEPT !.snowflakes = v[2].snowflakes]
        /\ IF v[1] = {}
           THEN v[2].snowflakes = snowflakes
           ELSE RemovedAt(snowflakes, v[2].snowflakes, Highest(v[1])))

\* C15: a click removes at most one particle: when some particle's hit-test
\* succeeds at the mapped click point, exactly the one with the highest index
\* among them is removed and the others keep their order; when none does, the
\* collection is unchanged.
C15_ClickRemovesOne ==
    /\ [](phase \in Constructed => \A e \in ClickEvents : ClickRemovesTopmostHit(e))
    /\ [][(phase \in Constructed /\ op' = "click") =>
             \/ snowflakes' = snowflakes
             \/ \E i \in DOMAIN snowflakes : RemovedAt(snowflakes, snowflakes', i)]_vars

\* A click removed a particle from a full collection.
C15_Witness ==
    /\ phase = "live"
    /\ op = "click"
    /\ Len(snowflakes) = ConfiguredCount - 1

(***************************************************************************)
(* The hit-test and the accumulate/reset transitions of the particle.      *)
(***************************************************************************)
\* The squared distance from the point (px, py) to the particle's centre.
SquaredDistance(p, px, py) ==
    RAdd(RMul(RSub(Num(px), p.x), RSub(Num(px), p.x)),
         RMul(RSub(Num(py), p.y), RSub(Num(py), p.y)))

\* The particle of the hit-test example: centre (10, 10), radius 5.
ExampleDisc ==
    [ params |-> [ x |-> Num(10), y |-> Num(10), radius |-> Num(5) ] ]

\* C16: containsPoint(px, py) is true if and only if
\* (px - x)^2 + (py - y)^2 <= radius^2, the boundary included: with centre
\* (10, 10) and radius 5 the point (12, 13) is contained, (20, 20) is not,
\* and (13, 14), at distance exactly 5, is.
C16_ContainsPoint ==
    /\ \A px \in PointCoordinates, py \in PointCoordinates :
          ContainsPoint(flake, Num(px), Num(py))
             <=> RLe(SquaredDistance(flake.params, px, py),
                     RMul(flake.params.radius, flake.params.radius))
    /\ ContainsPoint(ExampleDisc, Num(12), Num(13))
    /\ ~ContainsPoint(ExampleDisc, Num(20), Num(20))
    /\ ContainsPoint(ExampleDisc, Num(13), Num(14))

\* The particle contains one of the points on its boundary and another in
\* its interior, and does not contain a third.
C16_Witness ==
    /\ \E px \in PointCoordinates, py \in PointCoordinates :
          /\ SquaredDistance(flake.params, px, py)
                = RMul(flake.params.radius, flake.params.radius)
          /\ ContainsPoint(flake, Num(px), Num(py))
    /\ \E px \in PointCoordinates, py \in PointCoordinates :
          /\ RLt(SquaredDistance(flake.params, px, py),
                 RMul(flake.params.radius, flake.params.radius))
          /\ ContainsPoint(flake, Num(px), Num(py))
    /\ \E px \in PointCoordinates, py \in PointCoordinates :
          ~ContainsPoint(flake, Num(px), Num(py))

\* C17: markAsAccumulated(atY) sets y to atY and the accumulation flag to
\* true; a following reset(width, height) clears the flag and places the
\* particle at 0 <= x < width, -height <= y < 0 with speed, wind and both
\* targets inside their configured ranges, so that after markAsAccumulated
\* then reset the flag is false and y < 0.
C17_MarkThenReset ==
    /\ ret.op = "markAsAccumulated" =>
          /\ flake.params.y = RSub(Num(ret.height), ret.accumulationHeight)
          /\ flake.params.isAccumulated
    /\ ret.op = "reset" =>
          /\ ~flake.params.isAccumulated
          /\ RLe(Zero, flake.params.x) /\ RLt(flake.params.x, Num(ret.width))
          /\ RLe(Num(-ret.height), flake.params.y) /\ RLt(flake.params.y, Zero)
          /\ Within(flake.params.speed, flake.config.speed)
          /\ Within(flake.params.wind, flake.config.wind)
          /\ Within(flake.params.nextSpeed, flake.config.speed)
          /\ Within(flake.params.nextWind, flake.config.wind)

\* A particle pinned to the ground layer, at a y of 0 or more, was reset.
C17_Witness ==
    /\ ret.op = "reset"
    /\ ret.before.params.isAccumulated
    /\ RGe(ret.before.params.y, Zero)
    /\ ~flake.params.isAccumulated
    /\ RLt(flake.params.y, Zero)

(***************************************************************************)
(* Reconfiguration and resize.                                             *)
(***************************************************************************)
\* The collection is made of freshly constructed particles: it is what
\* Snowflake.createSnowflakes builds for the current configuration and
\* surface from some state of the generator.
FreshCollection ==
    \E s \in 0 .. RandMod - 1 :
        snowflakes =
            StaticCreateSnowflakes(ConfiguredCount, SnowflakeProps(config),
                                   canvas.width, canvas.height, s).snowflakes

\* C18: updateConfig(c) replaces the whole configuration with c, a field
\* absent from c taking its default and not its previous value, sets the
\* ground height to 0, and replaces the collection with freshly constructed
\* particles, c.snowflakeCount of them (150 when absent).
C18_UpdateConfigRebuilds ==
    op = "updateConfig" =>
        /\ config \in Configs \cup {ConfigDefaultCount}
        /\ accumulationHeight = Zero
        /\ Len(snowflakes) = ConfiguredCount
        /\ \A i \in DOMAIN snowflakes :
              /\ snowflakes[i].config = SnowflakeProps(config)
              /\ snowflakes[i].params.framesSinceLastUpdate = Zero
              /\ ~snowflakes[i].params.isAccumulated
              /\ RLt(snowflakes[i].params.y, Zero)
        /\ FreshCollection

\* updateConfig() with a configuration that gives no count, on a destroyed
\* or live controller, has made 150 particles with the default speed range.
C18_Witness ==
    /\ op = "updateConfig"
    /\ "snowflakeCount" \notin DOMAIN config
    /\ Len(snowflakes) = DefaultSnowflakeCount
    /\ snowflakes[1].config.speed = defaultSnowflakeConfig.speed

\* A particle is within the wrap bounds of the surface.
InWrapBounds(p) ==
    /\ RLe(p.y, Num(canvas.height))
    /\ RLe(RNeg(p.radius), p.x)
    /\ RLe(p.x, RAdd(Num(canvas.width), p.radius))

\* A resize() step changes the stored width and height and nothing else.
ResizeChangesOnlySize ==
    (phase \in Constructed /\ op' = "resize") =>
        /\ snowflakes' = snowflakes
        /\ accumulationHeight' = accumulationHeight
        /\ isPaused' = isPaused
        /\ pending' = pending
        /\ animationFrame' = animationFrame
        /\ lastUpdate' = lastUpdate
        /\ config' = config
        /\ clickHandler' = clickHandler
        /\ rng' = rng
        /\ phase' = phase
        /\ canvas' \in { [canvas EXCEPT !.width = sz[1], !.height = sz[2]] : sz \in Sizes }
        /\ calls' = << >>

\* C19: resize(width, height) changes only the stored surface width and
\* height: the particles, the collection and its order, the ground height,
\* the Playing/Paused state, the pending tick and the last-tick timestamp are
\* unchanged; and after the next tick every particle is within the wrap
\* bounds of the new surface.
C19_ResizeOnlySize ==
    /\ [][ResizeChangesOnlySize]_vars
    /\ []((phase \in Constructed /\ op = "tick") =>
             \A i \in DOMAIN snowflakes : InWrapBounds(snowflakes[i].params))

\* resize() has left a particle of a Playing controller below the new bottom
\* edge, with its tick still pending.
C19_Witness ==
    /\ phase = "live"
    /\ op = "resize"
    /\ ~isPaused
    /\ pending = {animationFrame}
    /\ \E i \in DOMAIN snowflakes : RGt(snowflakes[i].params.y, Num(canvas.height))

\* The current configuration enables the click interaction.
ClickEnabled == Nullish(config, "enableClickInteraction", FALSE)

\* C20: from construction until destroy(), after every updateConfig()
\* included, a click listener is attached to the surface if and only if the
\* current configuration has enableClickInteraction true, it is the one the
\* controller holds, never more than one is attached, and with the toggle
\* off a click removes nothing.
C20_ListenerMatchesToggle ==
    phase = "live" =>
        /\ canvas.listeners # {} <=> ClickEnabled
        /\ Cardinality(canvas.listeners) <= 1
        /\ canvas.listeners = IF ClickEnabled THEN {clickHandler} ELSE {}
        /\ ~ClickEnabled => clickHandler = Null
        /\ ~ClickEnabled =>
              \A e \in ClickEvents : Dispatch(Start, canvas.listeners, e) = Start

\* updateConfig() switched the toggle off and removed the listener, and a
\* click at one of the points would have hit a particle.
C20_Witness ==
    /\ phase = "live"
    /\ op = "updateConfig"
    /\ ~ClickEnabled
    /\ canvas.listeners = {}
    /\ \E i \in DOMAIN calls : calls[i].call = "removeEventListener"
    /\ \E e \in ClickEvents : Hits(e) # {}

(***************************************************************************)
(* The tick.                                                               *)
(***************************************************************************)
\* The frame units of ms milliseconds at the nominal rate: ms * 60 / 1000.
FrameUnitsOf(ms) == RDiv(RMul(Num(ms), Num(60)), Num(1000))

\* The frame units a tick run now would compute.
TickFrameUnits == FrameUnitsOf(now - lastUpdate)

\* The current controller configuration enables accumulation.
AccumulationEnabled == Nullish(config, "enableAccumulation", FALSE)

\* The entries of a call log that are calls of name.
CallsOf(log, name) == SelectSeq(log, LAMBDA c : c.call = name)

\* One call of name for each index of 1 .. n, in order.
OncePerIndex(name, n) == [ i \in 1 .. n |-> [call |-> name, arg |-> i] ]

\* Particle q is particle p advanced by f frame units as far as the angle,
\* the speed and the wind go.
AdvancedBy(p, q, cfg, f) ==
    /\ q.rotation = JsRem(RAdd(p.rotation, RMul(p.rotationSpeed, f)), Num(360))
    /\ q.radius = p.radius

\* Particle q is particle p moved by f frame units at the speed interpolated
\* for f, and wrapped at the bottom edge of a surface height high.
FellBy(p, q, cfg, f, height) ==
    Strict(lerp(p.speed, p.nextSpeed, RDiv(f, cfg.changeFrequency)), LAMBDA v :
        /\ q.speed = v
        /\ q.y = IF RGt(RAdd(p.y, RMul(v, f)), Num(height))
                 THEN RNeg(p.radius)
                 ELSE RAdd(p.y, RMul(v, f)))

\* A tick of a Playing controller (the clock stands still while it runs).
TickStep == phase \in Constructed /\ op' = "tick" /\ now' = now /\ ~isPaused

\* What a tick does with the elapsed time.
TickAdvancesByElapsed ==
    TickStep =>
        /\ lastUpdate' = now
        /\ Update(Start).lastUpdate = now
        /\ CallsOf(calls', "update") = OncePerIndex("update", Len(snowflakes))
        /\ Len(snowflakes') = Len(snowflakes)
        /\ \A i \in DOMAIN snowflakes :
              AdvancedBy(snowflakes[i].params, snowflakes'[i].params,
                         snowflakes[i].config, TickFrameUnits)
        /\ ~AccumulationEnabled =>
              \A i \in DOMAIN snowflakes :
                  /\ FellBy(snowflakes[i].params, snowflakes'[i].params,
                            snowflakes[i].config, TickFrameUnits, canvas.height)
                  /\ RLe(snowflakes'[i].params.y, Num(canvas.height))
                  /\ RLe(RNeg(snowflakes'[i].params.radius), snowflakes'[i].params.x)
                  /\ RLe(snowflakes'[i].params.x,
                         RAdd(Num(canvas.width), snowflakes'[i].params.radius))

\* C21: a tick converts the milliseconds elapsed since the last tick to frame
\* units as ms * 60 / 1000, advances every live particle exactly once by that
\* value, in collection order, and then sets the last-tick timestamp to its
\* own time; with accumulation disabled a particle's y grows by the
\* interpolated speed times the frame units unless it wraps, and stays within
\* the wrap bounds.
C21_TickElapsedTime ==
    [][TickAdvancesByElapsed]_vars

\* A tick after 50 ms advanced the one particle of a collection without
\* accumulation, and the particle has fallen below the top edge.
C21_Witness ==
    /\ phase = "live"
    /\ op = "tick"
    /\ ~AccumulationEnabled
    /\ Len(snowflakes) = 1
    /\ CallsOf(calls, "update") = OncePerIndex("update", 1)
    /\ lastUpdate = now
    /\ now > 0
    /\ RGt(snowflakes[1].params.y, Zero)

\* play() called at time t instead of now.
PlayAt(t) == Play([Start EXCEPT !.now = t])

\* The times play() is compared at: the last tick's, the current one, and
\* the ends of the clock's range.
ResumeTimes == {lastUpdate, now, 0, MaxTime}

\* Particle i was reset by the operation with call log log.
WasReset(log, i) == \E k \in DOMAIN log : log[k] = [call |-> "reset", arg |-> i]

\* What play() does to a paused controller: the baseline is the time of the
\* call, its tick advances the particles by 0 frame units whatever the time
\* since the last tick, and a particle that is within the wrap bounds and is
\* not reset stays as it is.
ResumeIgnoresPause ==
    Strict(Play(Start), LAMBDA r :
        /\ r.lastUpdate = now
        /\ ~r.isPaused
        /\ CallsOf(r.calls, "update") = OncePerIndex("update", Len(snowflakes))
        /\ \A t \in ResumeTimes :
              Strict(PlayAt(t), LAMBDA q :
                  /\ q.snowflakes = r.snowflakes
                  /\ q.accumulationHeight = r.accumulationHeight
                  /\ q.rng = r.rng
                  /\ q.calls = r.calls
                  /\ q.lastUpdate = t)
        /\ \A i \in DOMAIN snowflakes :
              (InWrapBounds(snowflakes[i].params) /\ ~WasReset(r.calls, i))
                  => r.snowflakes[i] = snowflakes[i])

\* A play() on a paused controller (the clock stands still while it runs).
ResumeStep == phase \in Constructed /\ isPaused /\ op' = "play" /\ now' = now

\* C22: play() from Paused resets the elapsed-time baseline to the time of
\* the call, so the first advance after a pause of any length receives the
\* time elapsed since play() and not since the last tick before the pause:
\* the time spent Paused never moves a particle.
C22_PlayResetsBaseline ==
    /\ []((phase \in Constructed /\ isPaused) => ResumeIgnoresPause)
    /\ [][ResumeStep => (lastUpdate' = now /\ ~isPaused' /\ pending' # {})]_vars

\* play() resumed, 50 ms after the last tick, a controller whose particles
\* have received no elapsed time yet, and they still have received none.
C22_Witness ==
    /\ phase = "live"
    /\ op = "play"
    /\ now > 0
    /\ lastUpdate = now
    /\ CallsOf(calls, "update") = OncePerIndex("update", Len(snowflakes))
    /\ Len(snowflakes) > 0
    /\ \A i \in DOMAIN snowflakes :
          /\ snowflakes[i].config.changeFrequency = Num(6)
          /\ snowflakes[i].params.framesSinceLastUpdate = Zero
          /\ RLt(snowflakes[i].params.y, Zero)

(***************************************************************************)
(* The effective configuration.                                            *)
(***************************************************************************)
\* Every field a configuration object can have.
ConfigFields ==
    DOMAIN defaultConfig \cup
        {"enableAccumulation", "accumulationMaxHeight", "accumulationRate",
         "enableClickInteraction"}

\* merged has, field by field, the user's value where user has the field and
\* the default otherwise.
UserOverDefaults(user, merged) ==
    \A f \in ConfigFields :
        IF f \in DOMAIN user
        THEN f \in DOMAIN merged /\ merged[f] = user[f]
        ELSE IF f \in DOMAIN defaultConfig
             THEN f \in DOMAIN merged /\ merged[f] = defaultConfig[f]
             ELSE f \notin DOMAIN merged

\* C23: mergeConfig(user) returns, for every configuration field, the user's
\* value when the user's object has the field and the default otherwise
\* (snowflakeCount 150); mergeConfig() equals defaultConfig; and the call
\* leaves the defaults and the user's object as they were.
C23_MergeConfig ==
    /\ defaultConfig.snowflakeCount = 150
    /\ \A f \in DOMAIN defaultSnowflakeConfig :
          defaultConfig[f] = defaultSnowflakeConfig[f]
    /\ mergeConfig(<< >>) = defaultConfig
    /\ ret.op = "mergeConfig" =>
          /\ DOMAIN ret.result \subseteq ConfigFields
          /\ UserOverDefaults(IF ret.args = << >> THEN << >> ELSE ret.args[1],
                              ret.result)
          /\ ret.defaults = defaultConfig
          /\ config = ret.args

\* mergeConfig was called on an object that overrides the count, sets the
\* colour to undefined, adds the accumulation toggle and leaves the change
\* frequency to the default.
C23_Witness ==
    /\ ret.op = "mergeConfig"
    /\ ret.args # << >>
    /\ {"snowflakeCount", "color", "enableAccumulation"} \subseteq DOMAIN ret.args[1]
    /\ ret.args[1].snowflakeCount = 300
    /\ ret.result.snowflakeCount = 300
    /\ ret.args[1].color = Undefined
    /\ ret.result.color = Undefined
    /\ ret.result.enableAccumulation
    /\ "changeFrequency" \notin DOMAIN ret.args[1]
    /\ ret.result.changeFrequency = Num(200)

(***************************************************************************)
(* The accumulation signal of the particle.                                *)
(***************************************************************************)
\* The particle's configuration enables accumulation; a configuration
\* without the toggle has it disabled.
ParticleAccumulates(f) == Nullish(f.config, "enableAccumulation", FALSE)

\* The lower edge of the particle has reached the top of a ground layer
\* ground high on a surface height high.
ReachedGround(p, height, ground) ==
    RGe(RAdd(p.y, p.radius), RSub(Num(height), ground))

\* C24: update returns true if and only if accumulation is enabled in the
\* particle's configuration and, for the position after the move and the
\* wrap, y + radius >= height - groundHeight; with accumulation disabled it
\* returns false for every input.
C24_AccumulationSignal ==
    ret.op = "update" =>
        ret.result =
            JsBoolean(/\ ParticleAccumulates(flake)
                      /\ ReachedGround(flake.params, ret.height,
                                       ret.accumulationHeight))

\* Particle q has the accumulation flag, radius, opacity, rotation speed,
\* image and configuration of particle f.
KeepsFixedFields(f, q) ==
    /\ q.params.isAccumulated = f.params.isAccumulated
    /\ q.params.radius = f.params.radius
    /\ q.params.opacity = f.params.opacity
    /\ q.params.rotationSpeed = f.params.rotationSpeed
    /\ q.params.image = f.params.image
    /\ q.config = f.config

\* The controller after particle i has been advanced and before anything
\* else is done with it, s being the controller just before.
JustAdvanced(s, i, f) ==
    Strict(SnowflakeUpdate(s.snowflakes[i], s.canvas.width, s.canvas.height, f,
                           s.accumulationHeight, s.rng), LAMBDA u :
        [Call(s, "update", i) EXCEPT !.snowflakes[i] = u.flake, !.rng = u.rng])

\* update on particle i of the collection, for f frame units, leaves the
\* fixed fields of the particle as they are and changes particle i, the
\* generator and the call log, and nothing else; and when the particle is
\* not due the controller does nothing more with it.
AdvanceTouchesOnlyItsParticle(i, f) ==
    Strict(<<JustAdvanced(Start, i, f), UpdateSnowflake(Start, i, f)>>, LAMBDA v :
        /\ KeepsFixedFields(snowflakes[i], v[1].snowflakes[i])
        /\ v[1] = [Start EXCEPT !.snowflakes[i] = v[1].snowflakes[i],
                                !.rng = v[1].rng, !.calls = v[1].calls]
        /\ v[1].calls = <<[call |-> "update", arg |-> i]>>
        /\ v[1].accumulationHeight = accumulationHeight
        /\ Accumulated(v[2].calls) \/ v[2] = v[1])

\* At a fired tick, update on each particle of the collection, for the
\* frame units of the tick and for 6 frame units, touches only its particle.
AdvanceOnTick ==
    TickStep =>
        \A i \in DOMAIN snowflakes, f \in {TickFrameUnits, Num(6)} :
            AdvanceTouchesOnlyItsParticle(i, f)

\* A step that changes the ground height of a constructed controller is an
\* updateConfig(), or a tick (fired, or run by play()) that pinned a particle.
GroundWrittenByTickOrUpdateConfig ==
    (phase \in Constructed /\ accumulationHeight' # accumulationHeight) =>
        \/ op' = "updateConfig"
        \/ op' \in {"tick", "play"} /\ Accumulated(calls')

\* C25: update on one particle never changes that particle's accumulation
\* flag, radius, opacity, rotation speed or image, never changes another
\* particle, and never changes the controller's ground height: the ground
\* height is written only by the controller's tick and by updateConfig().
C25_AdvanceFrame ==
    /\ [][AdvanceOnTick]_vars
    /\ [][GroundWrittenByTickOrUpdateConfig]_vars

\* A tick advanced both particles: one was due, was pinned and reset and the
\* ground grew; the other was not due, and neither has its flag set.
C25_Witness ==
    /\ phase = "live"
    /\ op = "tick"
    /\ CallsOf(calls, "update") = OncePerIndex("update", 2)
    /\ Len(CallsOf(calls, "markAsAccumulated")) = 1
    /\ RGt(accumulationHeight, Zero)
    /\ NoneAccumulated

(***************************************************************************)
(* The frame accumulator and the targets of the particle.                  *)
(***************************************************************************)
\* The frame accumulator of the last update before its test: the value at
\* entry plus the elapsed frame units.
FramesSum == RAdd(ret.before.params.framesSinceLastUpdate, ret.framesPassed)

\* Both targets of a particle are inside their configured ranges.
TargetsInRange(f) ==
    /\ Within(f.params.nextSpeed, f.config.speed)
    /\ Within(f.params.nextWind, f.config.wind)

\* C26: update adds the elapsed frame units to the frame accumulator and,
\* exactly when the sum reaches or exceeds changeFrequency, draws both
\* targets anew inside their configured ranges and sets the accumulator to 0,
\* discarding any excess; otherwise the targets are unchanged.  So the
\* accumulator is in [0, changeFrequency) after every update, and the targets
\* are inside their ranges in every state.
C26_FrameAccumulator ==
    /\ ret.op = "update" =>
          IF RGe(FramesSum, flake.config.changeFrequency)
          THEN flake.params.framesSinceLastUpdate = Zero
          ELSE /\ flake.params.framesSinceLastUpdate = FramesSum
               /\ flake.params.nextSpeed = ret.before.params.nextSpeed
               /\ flake.params.nextWind = ret.before.params.nextWind
    /\ RLe(Zero, flake.params.framesSinceLastUpdate)
    /\ RLt(flake.params.framesSinceLastUpdate, flake.config.changeFrequency)
    /\ TargetsInRange(flake)

\* An update carried the accumulator past changeFrequency: it is 0 again,
\* the excess is gone, and the speed target is a new one.
C26_Witness ==
    /\ ret.op = "update"
    /\ RGt(FramesSum, flake.config.changeFrequency)
    /\ flake.params.framesSinceLastUpdate = Zero
    /\ flake.params.nextSpeed # ret.before.params.nextSpeed

(***************************************************************************)
(* The edge wraps of the particle.                                         *)
(***************************************************************************)
\* The particle of the last update after the rotation, the move and the
\* frame accumulator, s being the generator's state at entry.
BeforeWrapFrom(s) ==
    UpdateTargets(ret.before.config,
        UpdateMotion(ret.before.config,
            UpdateRotation(ret.before.config, ret.before.params, ret.framesPassed),
            ret.framesPassed),
        ret.framesPassed, s)

\* The particle of the last update as it was right before the wraps: the
\* generator's state at entry is the one that leaves the generator as it is.
BeforeWrap ==
    BeforeWrapFrom(CHOOSE s \in 0 .. RandMod - 1 : BeforeWrapFrom(s).rng = rng).params

\* The vertical wrap is due for p on a surface height high.
PastBottom(p, height) == RGt(p.y, Num(height))

\* The horizontal wrap is due for p on a surface width wide.
PastSide(p, width) ==
    \/ RGt(p.x, RAdd(Num(width), p.radius))
    \/ RLt(p.x, RNeg(p.radius))

\* The wraps of the last update, b being the particle right before them.
WrapsIndependent(b) ==
    /\ flake.params = [b EXCEPT !.x = flake.params.x, !.y = flake.params.y]
    /\ flake.params.y = IF PastBottom(b, ret.height) THEN RNeg(b.radius) ELSE b.y
    /\ flake.params.x =
          IF RGt(b.x, RAdd(Num(ret.width), b.radius)) THEN RNeg(b.radius)
          ELSE IF RLt(b.x, RNeg(b.radius)) THEN RAdd(Num(ret.width), b.radius)
          ELSE b.x
    /\ WrapVertical(b, ret.height) = [b EXCEPT !.y = flake.params.y]
    /\ WrapHorizontal(b, ret.width) = [b EXCEPT !.x = flake.params.x]
    /\ WrapVertical(WrapHorizontal(b, ret.width), ret.height) = flake.params

\* C27: the edge wraps of update are independent: a horizontal wrap changes
\* only x and a vertical wrap changes only y; neither changes the speed, the
\* wind, the targets, the frame accumulator, the angles or the accumulation
\* flag, and both can fire in the same call.
C27_WrapsIndependent ==
    ret.op = "update" => Strict(BeforeWrap, LAMBDA b : WrapsIndependent(b))

\* One update wrapped the particle at the bottom edge and at a side edge.
C27_Witness ==
    /\ ret.op = "update"
    /\ Strict(BeforeWrap, LAMBDA b :
           /\ PastBottom(b, ret.height)
           /\ PastSide(b, ret.width)
           /\ flake.params.x # b.x)
    /\ flake.params.y = RNeg(flake.params.radius)

(***************************************************************************)
(* The order of a tick's steps.                                            *)
(***************************************************************************)
\* Particle i, handled from controller state s with result r: the particle
\* is advanced against the ground height of s and, if due, pinned at the top
\* of that ground layer, then the layer grows, then the particle is reset.
HandledInOrder(s, r, i, f) ==
    Strict(JustAdvanced(s, i, f), LAMBDA a :
        IF ReachedGround(a.snowflakes[i].params, s.canvas.height,
                         s.accumulationHeight)
        THEN Strict(PinSnowflake(a, i), LAMBDA pin :
                 /\ pin.snowflakes[i].params.y =
                        RSub(Num(s.canvas.height), s.accumulationHeight)
                 /\ pin.snowflakes[i].params.isAccumulated
                 /\ pin.accumulationHeight = s.accumulationHeight
                 /\ GrowAccumulation(pin).snowflakes = pin.snowflakes
                 /\ r = ResetSnowflake(GrowAccumulation(pin), i)
                 /\ r.calls = s.calls \o
                        <<[call |-> "update", arg |-> i],
                          [call |-> "markAsAccumulated", arg |-> i],
                          [call |-> "reset", arg |-> i]>>)
        ELSE r = a)

\* The particles from index i on are handled one after the other, in
\* collection order, each from the controller state s the one before left,
\* and the last one leaves u, what update() leaves.
RECURSIVE HandledFrom(_, _, _, _)
HandledFrom(s, i, f, u) ==
    IF i > Len(snowflakes)
    THEN u = [s EXCEPT !.lastUpdate = now]
    ELSE Strict(UpdateSnowflake(s, i, f), LAMBDA r :
             HandledInOrder(s, r, i, f) /\ HandledFrom(r, i + 1, f, u))

\* A fired tick with accumulation enabled handles the particles in
\* collection order, each against the ground height the particles before it
\* have left, and the controller is left with what that gives.
TickInCollectionOrder ==
    (TickStep /\ AccumulationEnabled) =>
        Strict(Update(Start), LAMBDA u :
               /\ HandledFrom(Start, 1, TickFrameUnits, u)
               /\ snowflakes' = u.snowflakes
               /\ accumulationHeight' = u.accumulationHeight
               /\ rng' = u.rng
               /\ SubSeq(calls', 1, Len(u.calls)) = u.calls)

\* C28: within one tick with accumulation enabled the particles are handled
\* in collection order and each update receives the ground height as it is at
\* that moment, the growth caused by earlier particles of the same tick
\* included; a particle that is due is pinned at height - groundHeight with
\* the ground height before its own growth step, and the growth step comes
\* before the particle's reset.
C28_TickOrder ==
    [][TickInCollectionOrder]_vars

\* A tick pinned both particles, the first before the second, and the ground
\* grew.
C28_Witness ==
    /\ phase = "live"
    /\ op = "tick"
    /\ AccumulationEnabled
    /\ SubSeq(calls, 1, 6) =
          <<[call |-> "update", arg |-> 1],
            [call |-> "markAsAccumulated", arg |-> 1],
            [call |-> "reset", arg |-> 1],
            [call |-> "update", arg |-> 2],
            [call |-> "markAsAccumulated", arg |-> 2],
            [call |-> "reset", arg |-> 2]>>
    /\ RGt(accumulationHeight, Zero)

\* A step in which a tick ran: a fired tick, or the tick of a play() from
\* Paused.
TickRan ==
    /\ phase \in Constructed
    /\ op' \in {"tick", "play"}
    /\ now' = now
    /\ calls' # << >>

\* A tick without accumulation advances every particle of the collection
\* and pins, resets and paints the ground layer for none.
TickWithoutAccumulation ==
    (TickRan /\ ~AccumulationEnabled) =>
        /\ CallsOf(calls', "update") = OncePerIndex("update", Len(snowflakes))
        /\ CallsOf(calls', "markAsAccumulated") = << >>
        /\ CallsOf(calls', "reset") = << >>
        /\ CallsOf(calls', "renderAccumulatedSnow") = << >>
        /\ CallsOf(calls', "draw") = OncePerIndex("draw", Len(snowflakes))
        /\ accumulationHeight' = Zero

\* C29: with accumulation disabled in the controller's configuration, after
\* any sequence of ticks and other operations the ground height is 0, no
\* particle is marked accumulated or reset by a tick, every particle of the
\* collection is advanced on every tick, and the ground layer is never
\* painted.
C29_AccumulationDisabled ==
    /\ []((phase \in Constructed /\ ~AccumulationEnabled) =>
             /\ accumulationHeight = Zero
             /\ NoneAccumulated
             /\ CallsOf(calls, "renderAccumulatedSnow") = << >>)
    /\ [][TickWithoutAccumulation]_vars

\* A tick without accumulation left a particle whose lower edge is at or
\* below the bottom edge where it is: it was advanced and drawn, and was
\* neither pinned nor reset.
C29_Witness ==
    /\ phase = "live"
    /\ op = "tick"
    /\ ~AccumulationEnabled
    /\ \E i \in DOMAIN snowflakes :
          /\ ReachedGround(snowflakes[i].params, canvas.height, Zero)
          /\ \E k \in DOMAIN calls : calls[k] = [call |-> "update", arg |-> i]
          /\ \E k \in DOMAIN calls : calls[k] = [call |-> "draw", arg |-> i]
    /\ CallsOf(calls, "reset") = << >>
    /\ accumulationHeight = Zero

\* The calls a tick makes while it advances the particles.
AdvanceCalls == {"update", "markAsAccumulated", "reset"}

\* The calls of render() for n particles, none of them accumulated: the
\* ground layer if it is to be painted, then the particles in collection
\* order.
PaintCalls(n, ground) ==
    (IF ground THEN <<[call |-> "renderAccumulatedSnow", arg |-> 0]>> ELSE << >>)
        \o OncePerIndex("draw", n)

\* The call log log is that of one tick over n particles: the advance of
\* every particle, the clearing of the surface at position k, the painting,
\* and the scheduling of callback h, in this order.
TickLogAt(log, k, n, ground, h) ==
    /\ log[k] = [call |-> "clearRect", arg |-> 0]
    /\ \A j \in 1 .. k - 1 : log[j].call \in AdvanceCalls
    /\ CallsOf(SubSeq(log, 1, k - 1), "update") = OncePerIndex("update", n)
    /\ SubSeq(log, k + 1, Len(log)) =
          PaintCalls(n, ground) \o <<[call |-> "requestAnimationFrame", arg |-> h]>>

\* A fired tick of a Playing controller performs its steps in order and
\* schedules one callback.
PlayingTickInOrder ==
    TickStep =>
        /\ \E k \in DOMAIN calls' :
              TickLogAt(calls', k, Len(snowflakes),
                        AccumulationEnabled /\ RGt(accumulationHeight', Zero),
                        animationFrame')
        /\ \A i \in DOMAIN snowflakes' : ~snowflakes'[i].params.isAccumulated
        /\ pending' = {animationFrame'}
        /\ animationFrame' # Null

\* A callback delivered to a Paused controller does nothing.
PausedTickDoesNothing ==
    (phase \in Constructed /\ isPaused /\ op' \in {"tick", "stale"} /\ now' = now) =>
        /\ calls' = << >>
        /\ pending' = pending
        /\ State' = [State EXCEPT !.calls = << >>]

\* C30: each tick run while Playing performs its steps in this order: it
\* advances all live particles, clears the surface, paints the ground layer
\* (only if accumulation is enabled and the ground height is above 0), draws
\* every particle whose accumulation flag is false in collection order, and
\* then schedules exactly one next tick; a tick invoked while Paused performs
\* none of these steps and schedules nothing.
C30_TickStepsInOrder ==
    /\ [][PlayingTickInOrder]_vars
    /\ [][PausedTickDoesNothing]_vars

\* A tick advanced the particles, cleared the surface, painted the ground
\* layer, drew both particles and scheduled the next tick.
C30_Witness ==
    /\ phase = "live"
    /\ op = "tick"
    /\ AccumulationEnabled
    /\ RGt(accumulationHeight, Zero)
    /\ Len(snowflakes) = 2
    /\ \E k \in DOMAIN calls :
          /\ k > 1
          /\ TickLogAt(calls, k, 2, TRUE, animationFrame)
    /\ pending = {animationFrame}

(***************************************************************************)
(* The rendering mode and the assigned image.                              *)
(***************************************************************************)
\* The particle's configuration has an image pool.
PoolConfigured(f) == f.config.images # Undefined

HasImage(f) == f.params.image # Undefined

\* The rendering mode of a draw call's paint calls: the image is painted, a
\* scaled circle is painted, or a plain circle is painted.
ModeOf(paints) ==
    IF \E i \in DOMAIN paints : paints[i].call = "drawImage"
    THEN "image"
    ELSE IF \E i \in DOMAIN paints : paints[i].call = "arc"
         THEN IF \E i \in DOMAIN paints : paints[i].call = "scale"
              THEN "circle3D"
              ELSE "circle"
         ELSE "none"

\* The draw call painted in the mode the particle's image and 3D toggle
\* select, the assigned image if in image mode.
DrawSelectsMode ==
    ret.op = "draw" =>
        /\ ModeOf(ret.result) =
               IF HasImage(flake) THEN "image"
               ELSE IF flake.config.enable3DRotation THEN "circle3D"
               ELSE "circle"
        /\ \A i \in DOMAIN ret.result :
               ret.result[i].call = "drawImage" =>
                   ret.result[i].image = flake.params.image
        /\ Cardinality({ i \in DOMAIN ret.result :
                            ret.result[i].call \in {"drawImage", "arc"} }) = 1

\* The particle has an image exactly if its configuration has a pool, and
\* the image is one of the pool.
ImageFromPool ==
    /\ HasImage(flake) <=> PoolConfigured(flake)
    /\ HasImage(flake) =>
           \E i \in DOMAIN flake.config.images :
               flake.config.images[i] = flake.params.image

\* C31: draw selects exactly one rendering mode per particle: image mode if
\* the particle has an assigned image, otherwise the pseudo-3D circle if 3D
\* rotation is enabled, otherwise the plain circle; and a particle has an
\* assigned image if and only if an image pool is configured, the image
\* being an element of that pool.
C31_DrawMode == DrawSelectsMode /\ ImageFromPool

\* C31, the part about draw alone, and the image for pools that are not
\* empty.
C31_DrawModeNonEmptyPool ==
    /\ DrawSelectsMode
    /\ (PoolConfigured(flake) /\ flake.config.images = << >>) \/ ImageFromPool

(***************************************************************************)
(* The texture strokes of the ground layer.                                *)
(***************************************************************************)
\* The strokes are one per spacing step below the ground height, from
\* offset 0, the spacing being max(2, floor(groundHeight / 50)).
StrokesEverySpacing ==
    ret.op = "renderAccumulatedSnow" =>
        /\ ret.textureStep >= 2
        /\ ret.textureStep =
               IF RGe(accumulationHeight, Num(3 * maxTextureLines))
               THEN Floor(RDiv(accumulationHeight, Num(maxTextureLines)))
               ELSE 2
        /\ \A k \in DOMAIN ret.strokes :
               /\ ret.strokes[k] = (k - 1) * ret.textureStep
               /\ RLt(Num(ret.strokes[k]), accumulationHeight)
        /\ RGe(Num(Len(ret.strokes) * ret.textureStep), accumulationHeight)

\* C32: the number of texture strokes painted on the ground layer is at most
\* maxTextureLines = 50 for every ground height above 0, the strokes being
\* one per spacing step below the ground height with the spacing
\* max(2, floor(groundHeight / 50)).
C32_TextureCapped ==
    /\ StrokesEverySpacing
    /\ ret.op = "renderAccumulatedSnow" => Len(ret.strokes) <= maxTextureLines

\* C32, with the number of strokes the loop can reach: at most 50 up to
\* the ground height 100, and at most 75 above it.
C32_TextureBounded ==
    /\ StrokesEverySpacing
    /\ ret.op = "renderAccumulatedSnow" =>
           Len(ret.strokes) <=
               IF RLe(accumulationHeight, Num(2 * maxTextureLines))
               THEN maxTextureLines
               ELSE 75

\* The ground layer was painted with 75 strokes.
TextureReachesSeventyFive ==
    /\ ret.op = "renderAccumulatedSnow"
    /\ Len(ret.strokes) = 75

(***************************************************************************)
(* Speed and wind within their ranges.                                     *)
(***************************************************************************)
\* The particle's current speed and wind are inside the configured ranges.
SpeedWindInRange(f) ==
    /\ Within(f.params.speed, f.config.speed)
    /\ Within(f.params.wind, f.config.wind)

\* C33: after any sequence of update and reset calls in which every elapsed
\* frame-unit value is from 0 to the change frequency, the particle's
\* current speed is inside the configured speed range and its current wind
\* inside the configured wind range: the ranges are left only by an update
\* whose elapsed frame units exceed the change frequency.
C33_SpeedWindInRange == SpeedWindInRange(flake)

\* An update over a whole change period moved the speed to its target.
C33_Witness ==
    /\ ret.op = "update"
    /\ ret.framesPassed = flake.config.changeFrequency
    /\ flake.params.speed = ret.before.params.nextSpeed
    /\ flake.params.speed # ret.before.params.speed
    /\ steps = MaxSteps

\* An update over more than a change period has taken the speed or the wind
\* out of its range.
OvershootLeavesRange ==
    /\ ret.op = "update"
    /\ RGt(ret.framesPassed, flake.config.changeFrequency)
    /\ SpeedWindInRange(ret.before)
    /\ ~SpeedWindInRange(flake)

(***************************************************************************)
(* The bottom wrap and the accumulation signal.                            *)
(***************************************************************************)
\* A controller holding the particle of the last update alone, as it was
\* before the call, on the surface and with the ground height of the call,
\* the generator in state s.
ControllerOf(before, s) ==
    [Start EXCEPT !.config = before.config,
                  !.canvas = [@ EXCEPT !.width = ret.width, !.height = ret.height],
                  !.snowflakes = <<before>>,
                  !.accumulationHeight = ret.accumulationHeight,
                  !.rng = s]

\* The last call was an update of a particle with accumulation enabled,
\* with the ground below the surface height, whose move took y beyond the
\* surface height.
FellPastBottom ==
    /\ ret.op = "update"
    /\ ParticleAccumulates(ret.before)
    /\ RLt(ret.accumulationHeight, Num(ret.height))
    /\ RGt(Moved.y, Num(ret.height))

\* The controller, handling the particle, makes no accumulation event of it
\* and leaves the ground height as it is.
PassesGround(st) ==
    Strict(UpdateSnowflake(st, 1, ret.framesPassed), LAMBDA r :
        /\ r.calls = <<[call |-> "update", arg |-> 1]>>
        /\ r.accumulationHeight = st.accumulationHeight
        /\ ~r.snowflakes[1].params.isAccumulated
        /\ r.snowflakes[1].params.y = RNeg(r.snowflakes[1].params.radius))

\* C34: with accumulation enabled and the ground height below the surface
\* height, a particle whose move in one update takes y beyond the surface
\* height is relocated to y = -radius and update returns false, so that the
\* controller, which updates the particles that are not accumulated, makes
\* no accumulation event of it and the ground height does not grow for it.
C34_WrapBeforeAccumulation ==
    FellPastBottom =>
        /\ flake.params.y = RNeg(flake.params.radius)
        /\ ret.result = JsBoolean(FALSE)
        /\ ~ret.before.params.isAccumulated =>
               \A s \in 0 .. RandMod - 1 : PassesGround(ControllerOf(ret.before, s))

\* A particle fell past the bottom of a surface with a ground layer above 0
\* and below the surface height, with its lower edge beyond the top of the
\* ground layer before the wrap.
C34_Witness ==
    /\ FellPastBottom
    /\ ~ret.before.params.isAccumulated
    /\ RGt(ret.accumulationHeight, Zero)
    /\ flake.params.y = RNeg(flake.params.radius)
    /\ ret.result = JsBoolean(FALSE)

\* With the ground as high as the surface, a particle that fell past the
\* bottom signals accumulation from y = -radius.
GroundAtSurfaceHeight ==
    /\ ret.op = "update"
    /\ ParticleAccumulates(ret.before)
    /\ ret.accumulationHeight = Num(ret.height)
    /\ RGt(Moved.y, Num(ret.height))
    /\ ret.result = JsBoolean(TRUE)

(***************************************************************************)
(* What reset leaves alone.                                                *)
(***************************************************************************)
\* Particle q is particle p but for x, y, speed, wind, the two targets and
\* the accumulation flag.
RecycledFrom(p, q) ==
    q = [p EXCEPT !.params.x = q.params.x,
                  !.params.y = q.params.y,
                  !.params.speed = q.params.speed,
                  !.params.wind = q.params.wind,
                  !.params.nextSpeed = q.params.nextSpeed,
                  !.params.nextWind = q.params.nextWind,
                  !.params.isAccumulated = q.params.isAccumulated]

\* Particle q has the size and the look of particle p.
KeepsLook(p, q) ==
    /\ q.params.radius = p.params.radius
    /\ q.params.opacity = p.params.opacity
    /\ q.params.rotationSpeed = p.params.rotationSpeed
    /\ q.params.rotation = p.params.rotation
    /\ q.params.rotationX = p.params.rotationX
    /\ q.params.rotationY = p.params.rotationY
    /\ q.params.rotationZ = p.params.rotationZ
    /\ q.params.framesSinceLastUpdate = p.params.framesSinceLastUpdate
    /\ q.params.image = p.params.image
    /\ q.config = p.config

\* C35: reset changes only x, y, speed, wind, nextSpeed, nextWind and the
\* accumulation flag: the radius, the opacity, the rotation speed, the four
\* rotation angles, the frame accumulator and the assigned image of the
\* particle are as before the call.
C35_ResetKeepsLook ==
    ret.op = "reset" =>
        /\ RecycledFrom(ret.before, flake)
        /\ KeepsLook(ret.before, flake)

\* A particle with an image and with frames in its accumulator, left by an
\* update, was reset to another position.
C35_Witness ==
    /\ ret.op = "reset"
    /\ HasImage(flake)
    /\ RGt(flake.params.framesSinceLastUpdate, Zero)
    /\ flake.params.x # ret.before.params.x
    /\ flake.params.y # ret.before.params.y

(***************************************************************************)
(* updateConfig and the schedule.                                          *)
(***************************************************************************)
\* A step in which updateConfig() ran on a constructed controller.
UpdateConfigStep ==
    phase \in Constructed /\ op' = "updateConfig" /\ now' = now

\* updateConfig() leaves the Playing/Paused state, the handle, the pending
\* callbacks and the time of the last update as they are, and neither
\* schedules nor cancels a callback.
UpdateConfigKeepsSchedule ==
    UpdateConfigStep =>
        /\ isPaused' = isPaused
        /\ animationFrame' = animationFrame
        /\ pending' = pending
        /\ lastUpdate' = lastUpdate
        /\ isPaused => (pending' = {} /\ animationFrame' = Null)
        /\ ~isPaused => (pending' = {animationFrame'} /\ animationFrame' # Null)
        /\ \A k \in DOMAIN calls' :
               calls'[k].call \notin {"requestAnimationFrame", "cancelAnimationFrame"}

\* The tick that was pending when updateConfig() ran updates and paints the
\* particles of the new collection, by the time elapsed since the update
\* before the call.
PendingTickRunsNewCollection ==
    (TickStep /\ op = "updateConfig") =>
        /\ \A i \in DOMAIN snowflakes :
               snowflakes[i].config = SnowflakeProps(config)
        /\ CallsOf(calls', "update") = OncePerIndex("update", Len(snowflakes))
        /\ CallsOf(calls', "draw") = OncePerIndex("draw", Len(snowflakes))
        /\ Len(snowflakes') = Len(snowflakes)
        /\ \A i \in DOMAIN snowflakes :
               AdvancedBy(snowflakes[i].params, snowflakes'[i].params,
                          snowflakes[i].config, FrameUnitsOf(now - lastUpdate))
        /\ lastUpdate' = now

\* C36: updateConfig() does not change the Playing/Paused state, the pending
\* tick or the elapsed-time baseline: called while Paused the controller
\* stays Paused with no tick scheduled, and called while Playing exactly the
\* one already pending tick remains, and that tick then runs over the new
\* collection.
C36_UpdateConfigKeepsSchedule ==
    /\ [][UpdateConfigKeepsSchedule]_vars
    /\ [][PendingTickRunsNewCollection]_vars

\* updateConfig() has run on a playing controller some time after its last
\* update, and its one tick is pending.
C36_Witness ==
    /\ phase = "live"
    /\ op = "updateConfig"
    /\ ~isPaused
    /\ pending = {animationFrame}
    /\ lastUpdate < now
    /\ accumulationHeight = Zero
====
